---- MODULE Spec2Model ----
(***************************************************************************)
(* A model of simdparse: the parsers of date, tzoffset, datetime,          *)
(* microtime, decimal_integer, hexadecimal_integer and uuid, the base64url *)
(* codec, month_to_ordinal, to_string and the throwing parse<T>, each in   *)
(* every build the preprocessor selects (the AVX2 kernels and the scalar   *)
(* fallbacks).                                                             *)
(*                                                                         *)
(* Text is a sequence of bytes 0..255.  C++ indexes from 0 and TLA+ from   *)
(* 1: At(s, i) is the C++ s[i].  A vector register is the sequence of its  *)
(* lanes (bytes, or 16/32-bit integers after a widening multiply-add).     *)
(* A 64-bit integer is the sequence of its 8 bytes, least significant      *)
(* first, so that arithmetic modulo 2^64 is exact.                         *)
(*                                                                         *)
(* The objects of all builds are kept side by side in one state: every     *)
(* parse action runs the same input through each build's code.             *)
(***************************************************************************)
EXTENDS Integers, Sequences, FiniteSets, TLC

-----------------------------------------------------------------------------
(* Bytes and strings *)

Byte == 0..255

\* the value of a byte read as a signed char (the epi8 comparisons are signed)
SignedByte(b) == IF b >= 128 THEN b - 256 ELSE b

RECURSIVE BitAnd(_, _)
BitAnd(a, b) ==
    IF a = 0 \/ b = 0 THEN 0
    ELSE (a % 2) * (b % 2) + 2 * BitAnd(a \div 2, b \div 2)

RECURSIVE BitOr(_, _)
BitOr(a, b) ==
    IF a = 0 THEN b
    ELSE IF b = 0 THEN a
    ELSE (IF a % 2 = 1 \/ b % 2 = 1 THEN 1 ELSE 0) + 2 * BitOr(a \div 2, b \div 2)

\* str[i] of a string_view or array
At(s, i) == s[i + 1]

\* std::string_view::substr(pos, n), n clipped to the end of the view
Substr(s, pos, n) == SubSeq(s, pos + 1, IF pos + n > Len(s) THEN Len(s) ELSE pos + n)

\* n copies of byte b (memset, or an array initializer)
Fill(n, b) == [i \in 1..n |-> b]

IsDigit(c) == c >= 48 /\ c <= 57

\* the element of a one-element set; { e(x) : x \in {v} } under it names a
\* call's result x once, however often e reads it
TheOnly(S) == CHOOSE v \in S : TRUE

-----------------------------------------------------------------------------
(* The vector instructions the kernels use.  The 256-bit forms act on two   *)
(* 128-bit lanes independently, which the same definitions cover.           *)

mm_cmpgt_epi8(a, b) ==
    [i \in DOMAIN a |-> IF SignedByte(a[i]) > SignedByte(b[i]) THEN 255 ELSE 0]

mm_or_si128(a, b) == [i \in DOMAIN a |-> BitOr(a[i], b[i])]

mm_and_si128(a, b) == [i \in DOMAIN a |-> BitAnd(a[i], b[i])]

\* the lanes whose sign bit is set; the mask is non-zero iff this set is non-empty
mm_movemask_epi8(a) == {i \in DOMAIN a : a[i] >= 128}

mm_sub_epi8(a, b) == [i \in DOMAIN a |-> (a[i] - b[i] + 256) % 256]

\* a control byte with its high bit set gives 0; otherwise its low four bits
\* select a byte of the same 128-bit lane
mm_shuffle_epi8(a, ctl) ==
    [i \in DOMAIN a |->
        IF ctl[i] >= 128 THEN 0
        ELSE a[((i - 1) \div 16) * 16 + (ctl[i] % 16) + 1]]

Saturate16(x) == IF x > 32767 THEN 32767 ELSE IF x < -32768 THEN -32768 ELSE x

\* unsigned bytes of a times signed bytes of b, adjacent products added
\* with signed 16-bit saturation
mm_maddubs_epi16(a, b) ==
    [k \in 1..(Len(a) \div 2) |->
        Saturate16(a[2 * k - 1] * SignedByte(b[2 * k - 1]) + a[2 * k] * SignedByte(b[2 * k]))]

\* signed 16-bit lanes multiplied, adjacent products added into 32-bit lanes
mm_madd_epi16(a, b) ==
    [k \in 1..(Len(a) \div 2) |-> a[2 * k - 1] * b[2 * k - 1] + a[2 * k] * b[2 * k]]

\* 32-bit lanes of a then of b narrowed to 16 bits with signed saturation
mm_packs_epi32(a, b) == [k \in 1..(Len(a) + Len(b)) |->
    Saturate16(IF k <= Len(a) THEN a[k] ELSE b[k - Len(a)])]

\* the byte of b where the mask byte's high bit is set, else the byte of a
mm_blendv_epi8(a, b, mask) == [i \in DOMAIN a |-> IF mask[i] >= 128 THEN b[i] ELSE a[i]]

-----------------------------------------------------------------------------
(* std::from_chars, as detail::parse_range and the parse_chars members use  *)
(* it: the longest prefix of digits (after one optional '-' for a signed    *)
(* type) is converted.  ec is errc{} iff there is at least one digit and    *)
(* the value fits; only then is the value stored.  ptr is the first byte    *)
(* not consumed.                                                            *)

RECURSIVE DigitRun(_, _, _)
DigitRun(s, beg, end) ==
    IF beg < end /\ IsDigit(At(s, beg)) THEN 1 + DigitRun(s, beg + 1, end) ELSE 0

RECURSIVE DigitsValue(_, _, _)
\* the number spelled by the digits s[beg .. end-1]
DigitsValue(s, beg, end) ==
    IF beg >= end THEN 0
    ELSE 10 * DigitsValue(s, beg, end - 1) + (At(s, end - 1) - 48)

\* from_chars into an unsigned int / unsigned long of at most 9 digits
from_chars_unsigned(s, beg, end) ==
    TheOnly({ [ec_ok |-> n > 0, ptr |-> beg + n, value |-> DigitsValue(s, beg, beg + n)] :
              n \in {DigitRun(s, beg, end)} })

\* from_chars into an int of at most 9 digits: a leading '-' is accepted
from_chars_int(s, beg, end) ==
    LET neg == beg < end /\ At(s, beg) = 45
        b0  == IF neg THEN beg + 1 ELSE beg
    IN  TheOnly({ [ec_ok |-> n > 0,
                   ptr   |-> IF n > 0 THEN b0 + n ELSE beg,
                   value |-> (IF neg THEN 0 - 1 ELSE 1) * DigitsValue(s, b0, b0 + n)] :
                  n \in {DigitRun(s, b0, end)} })

\* detail::parse_range: the result of from_chars on [beg, end) with
\* ok = (ec == errc{} && ptr == end); the target is written iff ec_ok
parse_range(s, beg, end, signed) ==
    TheOnly({ [ok |-> r.ec_ok /\ r.ptr = end, stored |-> r.ec_ok, value |-> r.value] :
              r \in {IF signed THEN from_chars_int(s, beg, end)
                               ELSE from_chars_unsigned(s, beg, end)} })

-----------------------------------------------------------------------------
(* struct date *)

ZeroDate == [year |-> 0, month |-> 0, day |-> 0]

\* validate a date string `YYYY-MM-DD`; bytes 10..15 of the buffer are "don't care"
date_lower_bound == <<48, 48, 48, 48, 45, 48, 48, 45, 48, 48, 128, 128, 128, 128, 128, 128>>
date_upper_bound == <<57, 57, 57, 57, 45, 49, 57, 45, 51, 57, 127, 127, 127, 127, 127, 127>>
date_ascii_digit_mask == <<15, 15, 15, 15, 0, 15, 15, 0, 15, 15, 0, 0, 0, 0, 0, 0>>
date_mask == <<0, 1, 2, 3, 5, 6, 8, 9, 255, 255, 255, 255, 255, 255, 255, 255>>

\* the range check shared by the kernels: some lane is below its lower or
\* above its upper bound
out_of_bounds(characters, lower_bound, upper_bound) ==
    mm_movemask_epi8(mm_or_si128(mm_cmpgt_epi8(lower_bound, characters),
                                 mm_cmpgt_epi8(characters, upper_bound))) # {}

\* date::parse_date, AVX2 build.  The 16-byte buffer is not initialized: the
\* six bytes after the copied text hold whatever was there (junk).
date_parse_date_avx2(o, str, junk) ==
    LET characters == str \o Fill(16 - Len(str), junk)
    IN  IF out_of_bounds(characters, date_lower_bound, date_upper_bound)
        THEN [ok |-> FALSE, obj |-> o]
        ELSE
        LET spread_integers == mm_and_si128(characters, date_ascii_digit_mask)
            c == mm_shuffle_epi8(spread_integers, date_mask)
        IN  [ok  |-> TRUE,
             obj |-> [year  |-> 1000 * At(c, 0) + 100 * At(c, 1) + 10 * At(c, 2) + At(c, 3),
                      month |-> 10 * At(c, 4) + At(c, 5),
                      day   |-> 10 * At(c, 6) + At(c, 7)]]

\* date::parse_date, scalar build: a chain of && that stops at the first
\* failure; each parse_range stores into its field as it goes
date_parse_date_scalar(o, str) ==
    TheOnly({
        LET ok1 == y.ok
            ok2 == ok1 /\ m.ok /\ m.value <= 12
        IN  [ok  |-> ok2 /\ d.ok /\ d.value <= 31,
             obj |-> [o EXCEPT !.year  = IF y.stored THEN y.value ELSE @,
                               !.month = IF ok1 /\ m.stored THEN m.value ELSE @,
                               !.day   = IF ok2 /\ d.stored THEN d.value ELSE @]] :
        y \in {parse_range(str, 0, 4, TRUE)},
        m \in {parse_range(str, 5, 7, FALSE)},
        d \in {parse_range(str, 8, 10, FALSE)} })

\* date::parse in build b
date_parse(b, o, str, junk) ==
    IF Len(str) # 10 THEN [ok |-> FALSE, obj |-> o]
    ELSE IF b = "avx2" THEN date_parse_date_avx2(o, str, junk)
    ELSE date_parse_date_scalar(o, str)

-----------------------------------------------------------------------------
(* struct tzoffset: the offset is its _value, in minutes *)

\* a parse that takes every sign byte for '+'
tzoffset_parse_east(v, str) ==
    IF Len(str) # 6 THEN [ok |-> FALSE, value |-> v]
    ELSE [ok |-> TRUE, value |-> 60 * DigitsValue(str, 1, 3) + DigitsValue(str, 4, 6)]

\* tzoffset::parse; _value is assigned before the sign and the minute are checked
tzoffset_parse(v, str) ==
    IF Len(str) # 6 THEN [ok |-> FALSE, value |-> v] ELSE
    TheOnly({
        IF ~hour.ok \/ At(str, 3) # 58 \/ ~minute.ok THEN [ok |-> FALSE, value |-> v] ELSE
        LET sign == (IF At(str, 0) = 43 THEN 1 ELSE 0) - (IF At(str, 0) = 45 THEN 1 ELSE 0)
        IN  [ok    |-> sign # 0 /\ minute.value < 60,
             value |-> sign * (60 * hour.value + minute.value)] :
        hour   \in {parse_range(str, 1, 3, FALSE)},
        minute \in {parse_range(str, 4, 6, FALSE)} })

-----------------------------------------------------------------------------
(* struct datetime *)

ZeroDatetime ==
    [year |-> 0, month |-> 0, day |-> 0, hour |-> 0, minute |-> 0, second |-> 0,
     nanosecond |-> 0, offset |-> 0]

\* validate a 16-byte partial date-time string `YYYY-MM-DDThh:mm`
dt_lower_bound == <<48, 48, 48, 48, 45, 48, 48, 45, 48, 48, 32, 48, 48, 58, 48, 48>>
dt_upper_bound == <<57, 57, 57, 57, 45, 49, 57, 45, 51, 57, 84, 50, 57, 58, 53, 57>>
dt_ascii_digit_mask == <<15, 15, 15, 15, 0, 15, 15, 0, 15, 15, 0, 15, 15, 0, 15, 15>>
dt_mask == <<0, 1, 2, 3, 5, 6, 8, 9, 11, 12, 14, 15, 255, 255, 255, 255>>
dt_weights == <<10, 1, 10, 1, 10, 1, 10, 1, 10, 1, 10, 1, 0, 0, 0, 0>>

\* datetime::parse_date_time, AVX2 build (a 19-character string): the vector
\* holds bytes 0..15; the seconds are read by parse_range
datetime_parse_date_time_avx2(o, str) ==
    LET characters == Substr(str, 0, 16)
    IN  IF out_of_bounds(characters, dt_lower_bound, dt_upper_bound)
        THEN [ok |-> FALSE, obj |-> o]
        ELSE
        LET spread_integers == mm_and_si128(characters, dt_ascii_digit_mask)
            packed_integers == mm_shuffle_epi8(spread_integers, dt_mask)
            result == mm_maddubs_epi16(packed_integers, dt_weights)
            o1 == [o EXCEPT !.year = At(result, 0) * 100 + At(result, 1),
                            !.month = At(result, 2),
                            !.day = At(result, 3),
                            !.hour = At(result, 4),
                            !.minute = At(result, 5)]
            s  == parse_range(str, 17, 19, FALSE)
        IN  [ok  |-> s.ok /\ s.value < 60,
             obj |-> IF s.stored THEN [o1 EXCEPT !.second = s.value] ELSE o1]

\* validate a 32-byte partial date-time string `YYYY-MM-DDThh:mm:ss.fffffffff---`
dtf_lower_bound ==
    <<48, 48, 48, 48, 45, 48, 48, 45, 48, 48, 32, 48, 48, 58, 48, 48,
      58, 48, 48, 46, 48, 48, 48, 48, 48, 48, 48, 48, 48, 48, 48, 48>>
dtf_upper_bound ==
    <<57, 57, 57, 57, 45, 49, 57, 45, 51, 57, 84, 50, 57, 58, 53, 57,
      58, 53, 57, 46, 57, 57, 57, 57, 57, 57, 57, 57, 57, 57, 57, 57>>
dtf_ascii_digit_mask ==
    <<15, 15, 15, 15, 0, 15, 15, 0, 15, 15, 0, 15, 15, 0, 15, 15,
      0, 15, 15, 0, 15, 15, 15, 15, 15, 15, 15, 15, 15, 15, 15, 15>>
dtf_mask ==
    <<0, 1, 2, 3, 5, 6, 8, 9, 11, 12, 14, 15, 255, 255, 255, 255,
      1, 2, 255, 4, 5, 6, 255, 7, 8, 9, 255, 10, 11, 12, 255, 255>>
dtf_weights ==
    <<10, 1, 10, 1, 10, 1, 10, 1, 10, 1, 10, 1, 0, 0, 0, 0,
      10, 1, 0, 100, 10, 1, 0, 100, 10, 1, 0, 100, 10, 1, 0, 0>>

\* datetime::parse_date_time_fractional, AVX2 build: the text is copied into
\* a 32-byte buffer whose tail is filled with '0'
datetime_parse_date_time_fractional_avx2(o, str) ==
    LET characters == str \o Fill(32 - Len(str), 48)
    IN  IF out_of_bounds(characters, dtf_lower_bound, dtf_upper_bound)
        THEN [ok |-> FALSE, obj |-> o]
        ELSE
        LET spread_integers == mm_and_si128(characters, dtf_ascii_digit_mask)
            packed_integers == mm_shuffle_epi8(spread_integers, dtf_mask)
            result == mm_maddubs_epi16(packed_integers, dtf_weights)
            milli == At(result, 9) + At(result, 10)
            micro == At(result, 11) + At(result, 12)
            nano  == At(result, 13) + At(result, 14)
        IN  [ok  |-> TRUE,
             obj |-> [o EXCEPT !.year = 100 * At(result, 0) + At(result, 1),
                               !.month = At(result, 2),
                               !.day = At(result, 3),
                               !.hour = At(result, 4),
                               !.minute = At(result, 5),
                               !.second = At(result, 8),
                               !.nanosecond = 1000000 * milli + 1000 * micro + nano]]

\* datetime::parse_date_time, scalar build
datetime_parse_date_time_scalar(o, str) ==
    TheOnly({
        \* okN: the first N conjuncts of the && chain held, so conjunct N+1 runs
        LET ok1 == y.ok /\ At(str, 4) = 45
            ok2 == ok1 /\ m.ok /\ m.value <= 12 /\ At(str, 7) = 45
            ok3 == ok2 /\ d.ok /\ d.value <= 31 /\ (At(str, 10) = 84 \/ At(str, 10) = 32)
            ok4 == ok3 /\ h.ok /\ h.value < 24 /\ At(str, 13) = 58
            ok5 == ok4 /\ mi.ok /\ mi.value < 60 /\ At(str, 16) = 58
        IN  [ok  |-> ok5 /\ s.ok /\ s.value < 60,
             obj |-> [o EXCEPT !.year   = IF y.stored THEN y.value ELSE @,
                               !.month  = IF ok1 /\ m.stored THEN m.value ELSE @,
                               !.day    = IF ok2 /\ d.stored THEN d.value ELSE @,
                               !.hour   = IF ok3 /\ h.stored THEN h.value ELSE @,
                               !.minute = IF ok4 /\ mi.stored THEN mi.value ELSE @,
                               !.second = IF ok5 /\ s.stored THEN s.value ELSE @]] :
        y  \in {parse_range(str, 0, 4, TRUE)},
        m  \in {parse_range(str, 5, 7, FALSE)},
        d  \in {parse_range(str, 8, 10, FALSE)},
        h  \in {parse_range(str, 11, 13, FALSE)},
        mi \in {parse_range(str, 14, 16, FALSE)},
        s  \in {parse_range(str, 17, 19, FALSE)} })

\* a table of powers that starts at 10 instead of 1
powers_from_ten(k) == 10 ^ (k + 1)

\* powers[k] of datetime::parse_fractional
powers(k) == CASE k = 0 -> 1 [] k = 1 -> 10 [] k = 2 -> 100 [] k = 3 -> 1000
               [] k = 4 -> 10000 [] k = 5 -> 100000 [] k = 6 -> 1000000
               [] k = 7 -> 10000000 [] k = 8 -> 100000000

\* datetime::parse_fractional: the digits after the '.', scaled to nanoseconds
datetime_parse_fractional(o, str) ==
    TheOnly({ IF ~fractional.ok THEN [ok |-> FALSE, obj |-> o]
              ELSE [ok |-> TRUE,
                    obj |-> [o EXCEPT !.nanosecond = powers(9 - Len(str)) * fractional.value]] :
              fractional \in {parse_range(str, 0, Len(str), FALSE)} })

\* datetime::parse_date_time_fractional, scalar build
datetime_parse_date_time_fractional_scalar(o, str) ==
    TheOnly({ IF ~(r.ok /\ At(str, 19) = 46) THEN [ok |-> FALSE, obj |-> r.obj]
              ELSE datetime_parse_fractional(r.obj, Substr(str, 20, Len(str))) :
              r \in {datetime_parse_date_time_scalar(o, Substr(str, 0, 19))} })

\* datetime::parse_naive_date_time in build b
datetime_parse_naive_date_time(b, o, str) ==
    IF Len(str) > 29 \/ Len(str) < 19 THEN [ok |-> FALSE, obj |-> o]
    ELSE IF Len(str) > 19
         THEN IF b = "avx2" THEN datetime_parse_date_time_fractional_avx2(o, str)
              ELSE datetime_parse_date_time_fractional_scalar(o, str)
         ELSE IF b = "avx2" THEN datetime_parse_date_time_avx2(o, str)
              ELSE datetime_parse_date_time_scalar(o, str)

\* " UTC"
UTCSuffix == <<32, 85, 84, 67>>

\* datetime::parse in build b: the suffix is told by the last byte ('Z'), the
\* byte six from the end ('+' or '-') or the last four bytes (" UTC"); every
\* branch hands the text before the suffix to parse_naive_date_time
datetime_parse(b, o, str) ==
    IF Len(str) < 19 \/ Len(str) > 35 THEN [ok |-> FALSE, obj |-> o] ELSE
    LET offset_sign == At(str, Len(str) - 6)
        suffix == IF At(str, Len(str) - 1) = 90 THEN 1
                  ELSE IF offset_sign = 43 \/ offset_sign = 45 THEN 6
                  ELSE IF Substr(str, Len(str) - 4, 4) = UTCSuffix THEN 4
                  ELSE 0
    IN  TheOnly({
            IF ~r.ok THEN r
            ELSE IF suffix = 6
            THEN TheOnly({ [ok |-> z.ok, obj |-> [r.obj EXCEPT !.offset = z.value]] :
                           z \in {tzoffset_parse(r.obj.offset, Substr(str, Len(str) - 6, 6))} })
            ELSE [ok |-> TRUE, obj |-> [r.obj EXCEPT !.offset = 0]] :
            r \in {datetime_parse_naive_date_time(b, o, Substr(str, 0, Len(str) - suffix))} })

-----------------------------------------------------------------------------
(* struct decimal_integer.  An unsigned long long is wider than the         *)
(* integers of the checker, so it is kept as its eight bytes, least         *)
(* significant first; sums and products carry from byte to byte and what    *)
(* carries out of the last byte is dropped, which is arithmetic modulo      *)
(* 2^64 on eight bytes.                                                     *)

ZeroU64 == <<0, 0, 0, 0, 0, 0, 0, 0>>

RECURSIVE MulAddLimbs(_, _, _, _)
\* the bytes i.. of x * k + c, for a carry c that enters byte i
MulAddLimbs(x, k, c, i) ==
    IF i > Len(x) THEN <<>>
    ELSE TheOnly({ <<t % 256>> \o MulAddLimbs(x, k, t \div 256, i + 1) : t \in {x[i] * k + c} })

\* x * k + c on Len(x) bytes (k <= 10000, c < 2^30)
NatMulAdd(x, k, c) == MulAddLimbs(x, k, c, 1)

RECURSIVE AddLimbs(_, _, _, _)
AddLimbs(x, y, c, i) ==
    IF i > Len(x) THEN <<>>
    ELSE TheOnly({ <<t % 256>> \o AddLimbs(x, y, t \div 256, i + 1) : t \in {x[i] + y[i] + c} })

\* x + y on Len(x) bytes
NatAdd(x, y) == AddLimbs(x, y, 0, 1)

\* 100'000'000ull * a + b for two 32-bit lanes a, b below 10^8
Join8Digits(a, b) == NatMulAdd(NatMulAdd(NatMulAdd(ZeroU64, 0, a), 10000, 0), 10000, b)

RECURSIVE AccumulateDigits(_, _, _, _)
\* std::from_chars into an unsigned long long, digit by digit: acc has nine
\* bytes, and once the ninth is non-zero the number no longer fits
AccumulateDigits(s, beg, end, acc) ==
    IF beg >= end \/ acc[9] # 0 THEN acc
    ELSE TheOnly({ AccumulateDigits(s, beg + 1, end, a) :
                   a \in {NatMulAdd(acc, 10, At(s, beg) - 48)} })

\* decimal_integer::parse_chars: from_chars takes the longest run of digits;
\* value is written only when there is a digit and the number fits
decimal_parse_chars(value, str) ==
    TheOnly({ IF n = 0 THEN [ok |-> FALSE, value |-> value]
              ELSE TheOnly({ IF acc[9] # 0 THEN [ok |-> FALSE, value |-> value]
                             ELSE [ok |-> n = Len(str), value |-> SubSeq(acc, 1, 8)] :
                             acc \in {AccumulateDigits(str, 0, n, ZeroU64 \o <<0>>)} }) :
              n \in {DigitRun(str, 0, Len(str))} })

decimal_scales_10 == <<10, 1, 10, 1, 10, 1, 10, 1, 10, 1, 10, 1, 10, 1, 10, 1>>
decimal_scales_100 == <<100, 1, 100, 1, 100, 1, 100, 1>>
decimal_scales_10000 == <<10000, 1, 10000, 1, 0, 0, 0, 0>>

\* decimal_integer::parse_simd, AVX2 build: at most 16 bytes, right-aligned in
\* a buffer of '0'
decimal_parse_simd_avx2(value, str) ==
    LET characters == Fill(16 - Len(str), 48) \o str
        lower_bound == Fill(16, 48)
        upper_bound == Fill(16, 57)
    IN  IF out_of_bounds(characters, lower_bound, upper_bound)
        THEN [ok |-> FALSE, value |-> value]
        ELSE
        LET values_digit_1 == mm_sub_epi8(characters, lower_bound)
            values_digit_2 == mm_maddubs_epi16(values_digit_1, decimal_scales_10)
            values_digit_4 == mm_madd_epi16(values_digit_2, decimal_scales_100)
            accumulator == mm_packs_epi32(values_digit_4, Fill(4, 0))
        IN  TheOnly({ [ok |-> TRUE, value |-> Join8Digits(At(result, 0), At(result, 1))] :
                      result \in {mm_madd_epi16(accumulator, decimal_scales_10000)} })

\* decimal_integer::parse_simd, SSE build (64-bit vectors): at most 8 bytes;
\* the low 32 bits of intermediate hold the first four digits
decimal_parse_simd_mmx(value, str) ==
    LET characters == Fill(8 - Len(str), 48) \o str
        lower == Fill(8, 48)
        upper == Fill(8, 57)
    IN  IF out_of_bounds(characters, lower, upper)
        THEN [ok |-> FALSE, value |-> value]
        ELSE
        LET values_digit1 == mm_sub_epi8(characters, lower)
            values_digit2 == mm_maddubs_epi16(values_digit1, SubSeq(decimal_scales_10, 1, 8))
        IN  TheOnly({ [ok |-> TRUE,
                       value |-> NatMulAdd(ZeroU64, 0, At(intermediate, 1) + At(intermediate, 0) * 10000)] :
                      intermediate \in {mm_madd_epi16(values_digit2, SubSeq(decimal_scales_100, 1, 4))} })

\* a loop that runs once whatever len is
TimesTenOnce(val, len) == NatMulAdd(val, 10, 0)

RECURSIVE TimesTen(_, _)
\* `for (k = 0; k < len; ++k) val *= 10;`
TimesTen(val, len) == IF len = 0 THEN val ELSE TimesTen(NatMulAdd(val, 10, 0), len - 1)

\* decimal_integer::parse_integer<Size>, with the build's parse_simd
decimal_parse_integer(b, Size, value, str) ==
    IF Len(str) > Size THEN
        TheOnly({
            IF ~head.ok THEN head
            ELSE TheOnly({ IF ~tail.ok THEN tail
                           ELSE [ok |-> TRUE,
                                 value |-> NatAdd(tail.value, TimesTen(head.value, Len(str) - Size))] :
                           tail \in {decimal_parse_chars(head.value, Substr(str, Size, Len(str) - Size))} }) :
            head \in {IF b = "avx2" THEN decimal_parse_simd_avx2(value, Substr(str, 0, Size))
                                    ELSE decimal_parse_simd_mmx(value, Substr(str, 0, Size))} })
    ELSE IF b = "avx2" THEN decimal_parse_simd_avx2(value, str)
    ELSE decimal_parse_simd_mmx(value, str)

\* decimal_integer::parse in build b
decimal_parse(b, value, str) ==
    IF b = "avx2" THEN decimal_parse_integer(b, 16, value, str)
    ELSE IF b = "mmx" THEN decimal_parse_integer(b, 8, value, str)
    ELSE decimal_parse_chars(value, str)

-----------------------------------------------------------------------------
(* struct hexadecimal_integer: value is a uint64_t, kept as its eight bytes *)

\* 32-bit lanes shifted left by the count of their lane (counts below 8);
\* a vector is its 16 bytes, each lane least significant byte first
mm_sllv_epi32(a, count) ==
    [i \in DOMAIN a |->
        LET s == count[((i - 1) \div 4) + 1]
            below == IF (i - 1) % 4 = 0 THEN 0 ELSE a[i - 1]
        IN  ((a[i] * (2 ^ s)) % 256) + (below \div (2 ^ (8 - s)))]

\* adjacent 32-bit lanes of a, then of b, added modulo 2^32
mm_hadd_epi32(a, b) ==
    NatAdd(SubSeq(a, 1, 4), SubSeq(a, 5, 8)) \o NatAdd(SubSeq(a, 9, 12), SubSeq(a, 13, 16))
        \o NatAdd(SubSeq(b, 1, 4), SubSeq(b, 5, 8)) \o NatAdd(SubSeq(b, 9, 12), SubSeq(b, 13, 16))

\* _mm_set_epi32(0x00020406, 0x01030507, 0x080a0c0e, 0x090b0d0f), in memory order
hex_unweave == <<15, 13, 11, 9, 14, 12, 10, 8, 7, 5, 3, 1, 6, 4, 2, 0>>

\* the shift applied to the lanes of the low digits instead
hex_shift_low == <<4, 0, 4, 0>>

\* _mm_set_epi32(4, 0, 4, 0), in memory order
hex_shift == <<0, 4, 0, 4>>

\* hexadecimal_integer::parse_hexadecimal, AVX2 build: at most 16 bytes,
\* right-aligned in a buffer of '0'
hex_parse_hexadecimal_avx2(value, str) ==
    TheOnly({
        LET is_not_digit == mm_or_si128(mm_cmpgt_epi8(Fill(16, 48), characters),
                                        mm_cmpgt_epi8(characters, Fill(16, 57)))
            is_not_alpha == mm_or_si128(mm_cmpgt_epi8(Fill(16, 97), lowercase_characters),
                                        mm_cmpgt_epi8(lowercase_characters, Fill(16, 102)))
            is_not_hex == mm_and_si128(is_not_digit, is_not_alpha)
        IN  IF mm_movemask_epi8(is_not_hex) # {} THEN [ok |-> FALSE, value |-> value]
            ELSE
            LET hex_offset == mm_blendv_epi8(Fill(16, 48), Fill(16, 87), is_not_digit)
                a1 == mm_sub_epi8(lowercase_characters, hex_offset)
                a2 == mm_shuffle_epi8(a1, hex_unweave)
                a3 == mm_sllv_epi32(a2, hex_shift)
                a4 == mm_hadd_epi32(a3, Fill(16, 0))
            IN  [ok |-> TRUE, value |-> SubSeq(a4, 1, 8)] :
        characters \in {Fill(16 - Len(str), 48) \o str},
        lowercase_characters \in {mm_or_si128(Fill(16 - Len(str), 48) \o str, Fill(16, 32))} })

\* the value of a hexadecimal digit in either case, -1 for any other byte
HexDigitValue(c) ==
    IF c >= 48 /\ c <= 57 THEN c - 48
    ELSE IF c >= 97 /\ c <= 102 THEN c - 87
    ELSE IF c >= 65 /\ c <= 70 THEN c - 55
    ELSE 0 - 1

RECURSIVE HexDigitRun(_, _, _)
HexDigitRun(s, beg, end) ==
    IF beg < end /\ HexDigitValue(At(s, beg)) >= 0 THEN 1 + HexDigitRun(s, beg + 1, end) ELSE 0

RECURSIVE AccumulateHexDigits(_, _, _, _)
\* std::from_chars in base 16, digit by digit; acc has nine bytes
AccumulateHexDigits(s, beg, end, acc) ==
    IF beg >= end \/ acc[9] # 0 THEN acc
    ELSE TheOnly({ AccumulateHexDigits(s, beg + 1, end, a) :
                   a \in {NatMulAdd(acc, 16, HexDigitValue(At(s, beg)))} })

\* hexadecimal_integer::parse_hexadecimal, build without AVX2: from_chars
hex_parse_hexadecimal_scalar(value, str) ==
    TheOnly({ IF n = 0 THEN [ok |-> FALSE, value |-> value]
              ELSE TheOnly({ IF acc[9] # 0 THEN [ok |-> FALSE, value |-> value]
                             ELSE [ok |-> n = Len(str), value |-> SubSeq(acc, 1, 8)] :
                             acc \in {AccumulateHexDigits(str, 0, n, ZeroU64 \o <<0>>)} }) :
              n \in {HexDigitRun(str, 0, Len(str))} })

\* hexadecimal_integer::parse_string in build b
hex_parse_string(b, value, str) ==
    IF Len(str) > 16 THEN [ok |-> FALSE, value |-> value]
    ELSE IF b = "avx2" THEN hex_parse_hexadecimal_avx2(value, str)
    ELSE hex_parse_hexadecimal_scalar(value, str)

\* hexadecimal_integer::parse in build b: "0x" before at least one more byte
\* is skipped
hex_parse(b, value, str) ==
    hex_parse_string(b, value,
        IF Len(str) > 2 /\ At(str, 0) = 48 /\ At(str, 1) = 120
        THEN Substr(str, 2, Len(str) - 2) ELSE str)

-----------------------------------------------------------------------------
(* struct uuid: _id is an array of 16 bytes *)

ZeroUuid == Fill(16, 0)

\* the 256-bit form adds within each 128-bit lane
mm256_hadd_epi32(a, b) ==
    mm_hadd_epi32(SubSeq(a, 1, 16), SubSeq(b, 1, 16))
        \o mm_hadd_epi32(SubSeq(a, 17, 32), SubSeq(b, 17, 32))

\* 64-bit lane q of the result is lane sel[q] of a
mm256_permute4x64_epi64(a, sel) ==
    [i \in 1..32 |-> a[8 * sel[((i - 1) \div 8) + 1] + ((i - 1) % 8) + 1]]

\* the bytes v written over the lane of Len(v) bytes with index idx
mm256_insert(x, v, idx) ==
    [i \in DOMAIN x |->
        IF (i - 1) \div Len(v) = idx THEN v[((i - 1) % Len(v)) + 1] ELSE x[i]]

\* the unweave of the low-digit lanes first
uuid_unweave_swapped ==
    <<1, 3, 5, 7, 0, 2, 4, 6, 9, 11, 13, 15, 8, 10, 12, 14,
      1, 3, 5, 7, 0, 2, 4, 6, 9, 11, 13, 15, 8, 10, 12, 14>>

\* _mm256_set_epi32(0x0f0d0b09, 0x0e0c0a08, 0x07050301, 0x06040200, ...), in memory order
uuid_unweave ==
    <<0, 2, 4, 6, 1, 3, 5, 7, 8, 10, 12, 14, 9, 11, 13, 15,
      0, 2, 4, 6, 1, 3, 5, 7, 8, 10, 12, 14, 9, 11, 13, 15>>

\* _mm256_set_epi32(0, 4, 0, 4, 0, 4, 0, 4), in memory order
uuid_shift == <<4, 0, 4, 0, 4, 0, 4, 0>>

\* 0b00001000: lanes 0, 2, 0, 0
uuid_permute == <<0, 2, 0, 0>>

\* detail::parse_uuid: 32 bytes of hexadecimal digits to 16 bytes
detail_parse_uuid(characters) ==
    TheOnly({
        LET is_not_digit == mm_or_si128(mm_cmpgt_epi8(Fill(32, 48), characters),
                                        mm_cmpgt_epi8(characters, Fill(32, 57)))
            is_not_alpha == mm_or_si128(mm_cmpgt_epi8(Fill(32, 97), lowercase_characters),
                                        mm_cmpgt_epi8(lowercase_characters, Fill(32, 102)))
            is_not_hex == mm_and_si128(is_not_digit, is_not_alpha)
        IN  IF mm_movemask_epi8(is_not_hex) # {} THEN [ok |-> FALSE, value |-> <<>>]
            ELSE
            LET hex_offset == mm_blendv_epi8(Fill(32, 48), Fill(32, 87), is_not_digit)
                a1 == mm_sub_epi8(lowercase_characters, hex_offset)
                a2 == mm_shuffle_epi8(a1, uuid_unweave)
                a3 == mm_sllv_epi32(a2, uuid_shift)
                a4 == mm256_hadd_epi32(a3, Fill(32, 0))
                a5 == mm256_permute4x64_epi64(a4, uuid_permute)
            IN  [ok |-> TRUE, value |-> SubSeq(a5, 1, 16)] :
        lowercase_characters \in {mm_or_si128(characters, Fill(32, 32))} })

\* uuid::parse_uuid_compact, AVX2 build; str holds the 32 bytes from the pointer
uuid_parse_uuid_compact_avx2(id, str) ==
    TheOnly({ IF r.ok THEN [ok |-> TRUE, id |-> r.value] ELSE [ok |-> FALSE, id |-> id] :
              r \in {detail_parse_uuid(str)} })

\* _mm256_set_epi32(0x80808080, 0x0f0e0d0c, 0x0b0a0908, 0x06050403,
\*                  0x80800f0e, 0x0c0b0a09, 0x07060504, 0x03020100), in memory order
uuid_dash_shuffle ==
    <<0, 1, 2, 3, 4, 5, 6, 7, 9, 10, 11, 12, 14, 15, 128, 128,
      3, 4, 5, 6, 8, 9, 10, 11, 12, 13, 14, 15, 128, 128, 128, 128>>

\* uuid::parse_uuid_rfc_4122, AVX2 build; str holds the 36 bytes from the pointer
uuid_parse_uuid_rfc_4122_avx2(id, str) ==
    LET original == Substr(str, 0, 32)
        x == mm_shuffle_epi8(original, uuid_dash_shuffle)
        y == mm256_insert(x, Substr(str, 16, 2), 7)
        z == mm256_insert(y, Substr(str, 32, 4), 7)
    IN  TheOnly({ IF r.ok THEN [ok |-> TRUE, id |-> r.value] ELSE [ok |-> FALSE, id |-> id] :
                  r \in {detail_parse_uuid(z)} })

(* sscanf, as the build without AVX2 uses it.  A %2hhx directive skips      *)
(* white space, then takes at most two bytes of an optionally signed        *)
(* hexadecimal integer and stores it as one byte; a '-' of the format       *)
(* matches exactly that byte; %n stores the number of bytes consumed, and   *)
(* is not reached after a failure.  The bytes "0x" fill the width with a    *)
(* prefix and no digit: the C library either takes them as 0 or fails the   *)
(* match (bare0x).  mem is the text from the pointer up to a NUL.           *)

\* isspace
IsSpace(c) == c = 32 \/ (c >= 9 /\ c <= 13)

RECURSIVE SkipSpace(_, _)
SkipSpace(mem, pos) == IF IsSpace(At(mem, pos)) THEN SkipSpace(mem, pos + 1) ELSE pos

\* one %2hhx directive at pos
scan_2hhx(mem, pos, bare0x) ==
    TheOnly({
        LET c == At(mem, p)
            signed == c = 43 \/ c = 45
            q == IF signed THEN p + 1 ELSE p
            prefix == ~signed /\ c = 48 /\ (At(mem, q + 1) = 120 \/ At(mem, q + 1) = 88)
            d1 == HexDigitValue(At(mem, q))
            d2 == IF ~signed /\ d1 >= 0 THEN HexDigitValue(At(mem, q + 1)) ELSE 0 - 1
            magnitude == IF d2 >= 0 THEN 16 * d1 + d2 ELSE d1
        IN  IF prefix THEN [ok |-> bare0x, pos |-> q + 2, value |-> 0]
            ELSE IF d1 < 0 THEN [ok |-> FALSE, pos |-> q, value |-> 0]
            ELSE [ok    |-> TRUE,
                  pos   |-> q + (IF d2 >= 0 THEN 2 ELSE 1),
                  value |-> IF c = 45 THEN (256 - magnitude) % 256 ELSE magnitude] :
        p \in {SkipSpace(mem, pos)} })

\* the directives of the two formats: "x" is %2hhx, "-" the literal
uuid_compact_format == [k \in 1..16 |-> "x"]
uuid_rfc_4122_format ==
    <<"x", "x", "x", "x", "-", "x", "x", "-", "x", "x", "-", "x", "x", "-",
      "x", "x", "x", "x", "x", "x">>

RECURSIVE sscanf(_, _, _, _, _, _, _)
\* directives k.. of fmt applied from byte pos; next is the index of _id the
\* next %2hhx stores to; the result is n after the call and _id
sscanf(mem, fmt, k, pos, id, next, bare0x) ==
    IF k > Len(fmt) THEN [n |-> pos, id |-> id]
    ELSE IF fmt[k] = "-"
    THEN IF At(mem, pos) = 45 THEN sscanf(mem, fmt, k + 1, pos + 1, id, next, bare0x)
         ELSE [n |-> 0, id |-> id]
    ELSE TheOnly({
            IF ~c.ok THEN [n |-> 0, id |-> id]
            ELSE sscanf(mem, fmt, k + 1, c.pos, [id EXCEPT ![next] = c.value], next + 1, bare0x) :
            c \in {scan_2hhx(mem, pos, bare0x)} })

\* uuid::parse_uuid_compact, build without AVX2
uuid_parse_uuid_compact_scalar(id, mem, bare0x) ==
    TheOnly({ [ok |-> r.n = 32, id |-> r.id] :
              r \in {sscanf(mem, uuid_compact_format, 1, 0, id, 1, bare0x)} })

\* uuid::parse_uuid_rfc_4122, build without AVX2
uuid_parse_uuid_rfc_4122_scalar(id, mem, bare0x) ==
    TheOnly({ [ok |-> r.n = 36, id |-> r.id] :
              r \in {sscanf(mem, uuid_rfc_4122_format, 1, 0, id, 1, bare0x)} })

\* uuid::parse in build b.  The AVX2 kernels read a fixed number of bytes from
\* the pointer; sscanf reads up to a NUL, which the view need not end with:
\* after is the byte behind the view, and a NUL follows it at the latest
uuid_parse(b, id, str, after, bare0x) ==
    IF Len(str) = 38 THEN
        IF b = "avx2" THEN uuid_parse_uuid_rfc_4122_avx2(id, Substr(str, 1, 37))
        ELSE uuid_parse_uuid_rfc_4122_scalar(id, Substr(str, 1, 37) \o <<after, 0>>, bare0x)
    ELSE IF Len(str) = 36 THEN
        IF b = "avx2" THEN uuid_parse_uuid_rfc_4122_avx2(id, str)
        ELSE uuid_parse_uuid_rfc_4122_scalar(id, str \o <<after, 0>>, bare0x)
    ELSE IF Len(str) = 32 THEN
        IF b = "avx2" THEN uuid_parse_uuid_compact_avx2(id, str)
        ELSE uuid_parse_uuid_compact_scalar(id, str \o <<after, 0>>, bare0x)
    ELSE [ok |-> FALSE, id |-> id]

-----------------------------------------------------------------------------
(* struct base64url *)

\* A-Z a-z 0-9 '-' '_'
base64_encoding_table ==
    <<65, 66, 67, 68, 69, 70, 71, 72, 73, 74, 75, 76, 77, 78, 79, 80,
      81, 82, 83, 84, 85, 86, 87, 88, 89, 90, 97, 98, 99, 100, 101, 102,
      103, 104, 105, 106, 107, 108, 109, 110, 111, 112, 113, 114, 115, 116, 117, 118,
      119, 120, 121, 122, 48, 49, 50, 51, 52, 53, 54, 55, 56, 57, 45, 95>>

\* the four characters of the bytes a, b, c
base64_encode_triplet(a, b, c) ==
    <<base64_encoding_table[(a \div 4) + 1],
      base64_encoding_table[(a % 4) * 16 + (b \div 16) + 1],
      base64_encoding_table[(b % 16) * 4 + (c \div 64) + 1],
      base64_encoding_table[(c % 64) + 1]>>

RECURSIVE base64_encode_triplets(_, _)
\* the loop of encode over the first n triplets of the input
base64_encode_triplets(input, n) ==
    IF n = 0 THEN <<>>
    ELSE base64_encode_triplets(input, n - 1)
             \o base64_encode_triplet(input[3 * n - 2], input[3 * n - 1], input[3 * n])

\* the switch of encode on the one or two spare bytes
base64_encode_spare(input, triplets, spare) ==
    IF spare = 1
    THEN <<base64_encoding_table[(input[3 * triplets + 1] \div 4) + 1],
           base64_encoding_table[(input[3 * triplets + 1] % 4) * 16 + 1]>>
    ELSE IF spare = 2
    THEN <<base64_encoding_table[(input[3 * triplets + 1] \div 4) + 1],
           base64_encoding_table[(input[3 * triplets + 1] % 4) * 16
                                     + (input[3 * triplets + 2] \div 16) + 1],
           base64_encoding_table[(input[3 * triplets + 2] % 16) * 4 + 1]>>
    ELSE <<>>

\* base64url::encode: the output is cleared and resized, and true is returned
base64_encode(input) ==
    [ok |-> TRUE,
     output |-> base64_encode_triplets(input, Len(input) \div 3)
                    \o base64_encode_spare(input, Len(input) \div 3, Len(input) % 3)]

\* decoding_table; 64 marks a byte that is not of the alphabet
base64_decoding_table ==
    <<
      64, 64, 64, 64, 64, 64, 64, 64, 64, 64, 64, 64, 64, 64, 64, 64,
      64, 64, 64, 64, 64, 64, 64, 64, 64, 64, 64, 64, 64, 64, 64, 64,
      64, 64, 64, 64, 64, 64, 64, 64, 64, 64, 64, 64, 64, 62, 64, 64,
      52, 53, 54, 55, 56, 57, 58, 59, 60, 61, 64, 64, 64, 64, 64, 64,
      64, 0, 1, 2, 3, 4, 5, 6, 7, 8, 9, 10, 11, 12, 13, 14,
      15, 16, 17, 18, 19, 20, 21, 22, 23, 24, 25, 64, 64, 64, 64, 63,
      64, 26, 27, 28, 29, 30, 31, 32, 33, 34, 35, 36, 37, 38, 39, 40,
      41, 42, 43, 44, 45, 46, 47, 48, 49, 50, 51, 64, 64, 64, 64, 64,
      64, 64, 64, 64, 64, 64, 64, 64, 64, 64, 64, 64, 64, 64, 64, 64,
      64, 64, 64, 64, 64, 64, 64, 64, 64, 64, 64, 64, 64, 64, 64, 64,
      64, 64, 64, 64, 64, 64, 64, 64, 64, 64, 64, 64, 64, 64, 64, 64,
      64, 64, 64, 64, 64, 64, 64, 64, 64, 64, 64, 64, 64, 64, 64, 64,
      64, 64, 64, 64, 64, 64, 64, 64, 64, 64, 64, 64, 64, 64, 64, 64,
      64, 64, 64, 64, 64, 64, 64, 64, 64, 64, 64, 64, 64, 64, 64, 64,
      64, 64, 64, 64, 64, 64, 64, 64, 64, 64, 64, 64, 64, 64, 64, 64,
      64, 64, 64, 64, 64, 64, 64, 64, 64, 64, 64, 64, 64, 64, 64, 64>>

\* decoding_table[static_cast<int>(c)]: where char is signed a byte 0x80..0xff
\* indexes before the table, and oob is what that read returns; where char is
\* unsigned the entry is 64, which is one of the values of oob
base64_table_at(c, oob) == IF c >= 128 THEN oob ELSE base64_decoding_table[c + 1]

\* one turn of the scalar loop of decode on the quadruplet at input[i]
base64_decode_quadruplet(input, i, oob) ==
    TheOnly({ [ok |-> BitAnd(BitOr(BitOr(q[1], q[2]), BitOr(q[3], q[4])), 64) = 0,
               bytes |-> TheOnly({ <<(t \div 65536) % 256, (t \div 256) % 256, t % 256>> :
                                   t \in {BitOr(BitOr(q[1] * 262144, q[2] * 4096),
                                                 BitOr(q[3] * 64, q[4]))} })] :
              q \in {[k \in 1..4 |-> base64_table_at(At(input, i + k - 1), oob)]} })

\* the tail of decode on the last three (spare = 2) or two (spare = 1) characters
base64_decode_tail(input, i, spare, oob) ==
    IF spare = 2
    THEN TheOnly({ [ok |-> BitAnd(BitOr(BitOr(q[1], q[2]), q[3]), 64) = 0,
                    bytes |-> TheOnly({ <<(t \div 1024) % 256, (t \div 4) % 256>> :
                                        t \in {BitOr(BitOr(q[1] * 4096, q[2] * 64), q[3])} })] :
                   q \in {[k \in 1..3 |-> base64_table_at(At(input, i + k - 1), oob)]} })
    ELSE IF spare = 1
    THEN TheOnly({ [ok |-> BitAnd(BitOr(q[1], q[2]), 64) = 0,
                    bytes |-> TheOnly({ <<(t \div 16) % 256>> :
                                        t \in {BitOr(q[1] * 64, q[2])} })] :
                   q \in {[k \in 1..2 |-> base64_table_at(At(input, i + k - 1), oob)]} })
    ELSE [ok |-> TRUE, bytes |-> <<>>]

\* each 32-bit lane shifted right by n bits: a byte takes the low bits of the
\* next byte of its lane
mm_srli_epi32(a, n) ==
    [i \in DOMAIN a |->
        (a[i] \div (2 ^ n))
            + (IF i % 4 # 0 THEN (a[i + 1] % (2 ^ n)) * (2 ^ (8 - n)) ELSE 0)]

\* 1 iff every bit set in b is set in a
mm_testc_si256(a, b) == \A i \in DOMAIN a : BitAnd(255 - a[i], b[i]) = 0

mm_cmpeq_epi8(a, b) == [i \in DOMAIN a |-> IF a[i] = b[i] THEN 255 ELSE 0]

mm_add_epi8(a, b) == [i \in DOMAIN a |-> (a[i] + b[i]) % 256]

\* the bytes of non-negative 32-bit lanes, least significant first
epi32_bytes(a) ==
    [i \in 1..(4 * Len(a)) |-> (a[((i - 1) \div 4) + 1] \div (256 ^ ((i - 1) % 4))) % 256]

\* a mask that also lets '+' (lower bits 11) into group 2
base64_valid_mask_plus ==
    <<21, 31, 31, 31, 31, 31, 31, 31, 31, 31, 15, 42, 10, 42, 10, 14,
      21, 31, 31, 31, 31, 31, 31, 31, 31, 31, 15, 42, 10, 42, 10, 14>>

\* maps the lower 4 bits of a character to the groups it is valid in
base64_valid_mask ==
    <<21, 31, 31, 31, 31, 31, 31, 31, 31, 31, 15, 10, 10, 42, 10, 14,
      21, 31, 31, 31, 31, 31, 31, 31, 31, 31, 15, 10, 10, 42, 10, 14>>

\* maps the upper 4 bits of a character to the bit of its group
base64_group_mask ==
    <<128, 64, 32, 16, 8, 4, 2, 1, 255, 255, 255, 255, 255, 255, 255, 255,
      128, 64, 32, 16, 8, 4, 2, 1, 255, 255, 255, 255, 255, 255, 255, 255>>

\* 64, 64, 62 - '-', 52 - '0', 0 - 'A', 0 - 'A', 26 - 'a', 26 - 'a', as bytes
base64_offset_lookup ==
    <<64, 64, 17, 4, 191, 191, 185, 185, 0, 0, 0, 0, 0, 0, 0, 0,
      64, 64, 17, 4, 191, 191, 185, 185, 0, 0, 0, 0, 0, 0, 0, 0>>

\* an order that keeps the bytes of each 32-bit lane least significant first
base64_order_forward ==
    <<0, 1, 2, 4, 5, 6, 8, 9, 10, 12, 13, 14, 255, 255, 255, 255,
      0, 1, 2, 4, 5, 6, 8, 9, 10, 12, 13, 14, 255, 255, 255, 255>>

\* the bytes of each 32-bit lane, most significant of the three first
base64_order ==
    <<2, 1, 0, 6, 5, 4, 10, 9, 8, 14, 13, 12, 255, 255, 255, 255,
      2, 1, 0, 6, 5, 4, 10, 9, 8, 14, 13, 12, 255, 255, 255, 255>>

\* the validity test of decode32: the group bit of each character is among
\* the bits its lower half selects
base64_decode32_valid(characters, groups) ==
    mm_testc_si256(mm_shuffle_epi8(base64_valid_mask, characters),
                   mm_shuffle_epi8(base64_group_mask, groups))

\* values of decode32: each character plus the offset of its group, or plus
\* 63 - '_' where it is '_'
base64_decode32_values(characters, groups) ==
    mm_add_epi8(characters,
                mm_blendv_epi8(mm_shuffle_epi8(base64_offset_lookup, groups),
                               Fill(32, 224),
                               mm_cmpeq_epi8(characters, Fill(32, 95))))

\* packed_bytes of decode32; set1_epi32(0x01400140) is the bytes 0x40, 0x01
\* in turn, set1_epi32(0x00011000) the 16-bit lanes 0x1000, 0x0001 in turn
base64_decode32_packed(values) ==
    mm_shuffle_epi8(
        epi32_bytes(mm_madd_epi16(
            mm_maddubs_epi16(values, [i \in 1..32 |-> IF i % 2 = 1 THEN 64 ELSE 1]),
            [i \in 1..16 |-> IF i % 2 = 1 THEN 4096 ELSE 1])),
        base64_order)

\* base64url::decode32 on the 32 characters: 12 bytes of each 128-bit lane
\* are copied to the output
base64_decode32(characters) ==
    TheOnly({ IF base64_decode32_valid(characters, groups)
              THEN [ok |-> TRUE,
                    bytes |-> TheOnly({ SubSeq(packed, 1, 12) \o SubSeq(packed, 17, 28) :
                                        packed \in {base64_decode32_packed(
                                            base64_decode32_values(characters, groups))} })]
              ELSE [ok |-> FALSE, bytes |-> <<>>] :
              groups \in {mm_and_si128(mm_srli_epi32(characters, 4), Fill(32, 15))} })

\* spare of decode
base64_spare(size) == IF size % 4 = 3 THEN 2 ELSE IF size % 4 = 2 THEN 1 ELSE 0

\* xmms of decode: the 32-character blocks the vector loop takes
base64_xmms(b, size) == IF b = "avx2" THEN (size \div 4) \div 8 ELSE 0

RECURSIVE base64_decode_from(_, _, _, _)
\* the loops and the tail of decode from quadruplet j on: whether they
\* return true, and the bytes written through p.  The AVX2 build takes the
\* first 8 * (quadruplets / 8) quadruplets 32 characters at a time.
base64_decode_from(b, input, j, oob) ==
    IF j >= Len(input) \div 4
    THEN TheOnly({ IF r.ok THEN r ELSE [ok |-> FALSE, bytes |-> <<>>] :
                   r \in {base64_decode_tail(input, 4 * j, base64_spare(Len(input)), oob)} })
    ELSE TheOnly({ IF ~r.ok THEN [ok |-> FALSE, bytes |-> <<>>]
                   ELSE TheOnly({ [ok |-> rest.ok, bytes |-> r.bytes \o rest.bytes] :
                                  rest \in {base64_decode_from(b, input,
                                      IF j < base64_xmms(b, Len(input)) * 8 THEN j + 8 ELSE j + 1,
                                      oob)} }) :
                   r \in {IF j < base64_xmms(b, Len(input)) * 8
                          THEN base64_decode32(SubSeq(input, 4 * j + 1, 4 * j + 32))
                          ELSE base64_decode_quadruplet(input, 4 * j, oob)} })

\* base64url::decode(input, output) in build b; output.resize keeps the bytes
\* the output held and adds zero bytes
base64_decode(b, output, input, oob) ==
    IF Len(input) % 4 = 1 THEN [ok |-> FALSE, output |-> output]
    ELSE TheOnly({ [ok |-> r.ok,
                    output |-> [k \in 1..(3 * (Len(input) \div 4) + base64_spare(Len(input))) |->
                                   IF k <= Len(r.bytes) THEN r.bytes[k]
                                   ELSE IF k <= Len(output) THEN output[k]
                                   ELSE 0]] :
                   r \in {base64_decode_from(b, input, 0, oob)} })

-----------------------------------------------------------------------------
(* struct microtime.  _value is an int64 count of microseconds.  It is kept *)
(* as [days, sod, micro] with                                               *)
(*     _value = (86400 * days + sod) * 1000000 + micro,                     *)
(*     0 <= sod < 86400 and 0 <= micro < 1000000,                           *)
(* which holds every int64 exactly; a time_t is kept as [days, sod].        *)

\* std::numeric_limits<std::int64_t>::min() = -9223372036854775808, the
\* _value of a default-constructed microtime
UNSET == [days |-> 0 - 106751992, sod |-> 71945, micro |-> 224192]

microtime_undefined(v) == v = UNSET

\* static_cast<std::time_t>(-1)
TimeMinusOne == [days |-> 0 - 1, sod |-> 86399]

\* the integer division and remainder of C++, which truncate toward zero
CDiv(a, b) == IF a >= 0 THEN a \div b ELSE 0 - ((0 - a) \div b)
CRem(a, b) == a - b * CDiv(a, b)

\* the days from 1970-01-01 to day d of month m (1..12) of year y in the
\* proleptic Gregorian calendar, as timegm counts them
days_from_civil(y, m, d) ==
    LET yy  == IF m <= 2 THEN y - 1 ELSE y
        era == yy \div 400
        yoe == yy - era * 400
        doy == ((153 * (IF m > 2 THEN m - 3 ELSE m + 9) + 2) \div 5) + d - 1
        doe == yoe * 365 + (yoe \div 4) - (yoe \div 100) + doy
    IN  era * 146097 + doe - 719468

\* timegm(&ts): tm_mon is brought into 0..11 by carrying into the year, and
\* the day, hour, minute and second count on linearly from there
timegm(year, mon, mday, hour, min, sec) ==
    TheOnly({ [days |-> days_from_civil(year + (mon \div 12), (mon % 12) + 1, 1)
                            + (mday - 1) + (secs \div 86400),
               sod  |-> secs % 86400] :
              secs \in {3600 * hour + 60 * min + sec} })

\* gmtime(&timer): the calendar date and the time of day of a time_t, with
\* tm_year + 1900 as year and tm_mon + 1 as month
gmtime(t) ==
    LET z   == t.days + 719468
        era == z \div 146097
        doe == z - era * 146097
        yoe == (doe - (doe \div 1460) + (doe \div 36524) - (doe \div 146096)) \div 365
        doy == doe - (365 * yoe + (yoe \div 4) - (yoe \div 100))
        mp  == (5 * doy + 2) \div 153
        m   == IF mp < 10 THEN mp + 3 ELSE mp - 9
    IN  [year  |-> yoe + era * 400 + (IF m <= 2 THEN 1 ELSE 0),
         month |-> m,
         day   |-> doy - ((153 * mp + 2) \div 5) + 1,
         hour  |-> t.sod \div 3600,
         minute |-> (t.sod \div 60) % 60,
         second |-> t.sod % 60]

\* microtime::microseconds: |_value| % 1000000, and 0 when undefined
microtime_microseconds(v) ==
    IF microtime_undefined(v) THEN 0
    ELSE IF v.days >= 0 THEN v.micro
    ELSE (1000000 - v.micro) % 1000000

\* microtime::as_time: _value / 1000000 truncated toward zero, and -1 when
\* undefined
microtime_as_time(v) ==
    IF microtime_undefined(v) THEN TimeMinusOne
    ELSE IF v.days >= 0 \/ v.micro = 0 THEN [days |-> v.days, sod |-> v.sod]
    ELSE IF v.sod = 86399 THEN [days |-> v.days + 1, sod |-> 0]
    ELSE [days |-> v.days, sod |-> v.sod + 1]

\* microtime::as_date; gmtime returns no null pointer for a time_t in range
microtime_as_date(v) ==
    TheOnly({ [year |-> ts.year, month |-> ts.month, day |-> ts.day] :
              ts \in {gmtime(microtime_as_time(v))} })

\* microtime::as_datetime
microtime_as_datetime(v) ==
    IF microtime_undefined(v) THEN ZeroDatetime
    ELSE TheOnly({ [year |-> ts.year, month |-> ts.month, day |-> ts.day,
                    hour |-> ts.hour, minute |-> ts.minute, second |-> ts.second,
                    nanosecond |-> 1000 * microtime_microseconds(v), offset |-> 0] :
                   ts \in {gmtime(microtime_as_time(v))} })

\* microtime::assign: the new _value
microtime_assign(year, month, day, hour, minute, second, microsecond, offset) ==
    TheOnly({ IF t = TimeMinusOne THEN UNSET
              ELSE [days |-> t.days, sod |-> t.sod, micro |-> microsecond] :
              t \in {timegm(year, month - 1, day, hour - CDiv(offset, 60),
                            minute - CRem(offset, 60), second)} })

\* microtime::parse(str) in build b: a local datetime is parsed, and assigned
\* when it parsed
microtime_parse(b, v, str) ==
    TheOnly({ IF ~dt.ok THEN [ok |-> FALSE, value |-> v]
              ELSE [ok |-> TRUE,
                    value |-> microtime_assign(dt.obj.year, dt.obj.month, dt.obj.day,
                                               dt.obj.hour, dt.obj.minute, dt.obj.second,
                                               dt.obj.nanosecond \div 1000, dt.obj.offset)] :
              dt \in {datetime_parse(b, ZeroDatetime, str)} })

-----------------------------------------------------------------------------
(* month_to_ordinal: the ordinal of an abbreviated English month name *)

\* detail::maybe_letter: the two high bits of the character are 01
maybe_letter(c) == BitAnd(c, 192) = 64

\* detail::month_to_integer: the low five bits of each character, packed
\* into 15 bits of a uint16
month_to_integer(c1, c2, c3) ==
    ((c1 % 32) * 1024 + (c2 % 32) * 32 + (c3 % 32)) % 65536

\* the table with the offsets of January and February exchanged
month_offsets_exchanged == <<7, 6, 4, 8, 9, 11, 2, 3, 1, 5, 10, 0, 15, 15, 15, 15>>

\* detail::month_offsets, indexed from 1
month_offsets == <<7, 6, 4, 8, 9, 11, 2, 3, 0, 5, 10, 1, 15, 15, 15, 15>>

\* detail::month_values, indexed from 1
month_values ==
    <<month_to_integer(74, 97, 110),      \* 'J', 'a', 'n'
      month_to_integer(70, 101, 98),      \* 'F', 'e', 'b'
      month_to_integer(77, 97, 114),      \* 'M', 'a', 'r'
      month_to_integer(65, 112, 114),     \* 'A', 'p', 'r'
      month_to_integer(77, 97, 121),      \* 'M', 'a', 'y'
      month_to_integer(74, 117, 110),     \* 'J', 'u', 'n'
      month_to_integer(74, 117, 108),     \* 'J', 'u', 'l'
      month_to_integer(65, 117, 103),     \* 'A', 'u', 'g'
      month_to_integer(83, 101, 112),     \* 'S', 'e', 'p'
      month_to_integer(79, 99, 116),      \* 'O', 'c', 't'
      month_to_integer(78, 111, 118),     \* 'N', 'o', 'v'
      month_to_integer(68, 101, 99),      \* 'D', 'e', 'c'
      0, 0, 0, 0>>

\* month_to_ordinal(c1, c2, c3): the perfect hash with k = 68 and p = 929
month_to_ordinal(c1, c2, c3) ==
    TheOnly({ IF /\ maybe_letter(c1) /\ maybe_letter(c2) /\ maybe_letter(c3)
                 /\ value = month_values[offset + 1]
              THEN offset + 1 ELSE 0 :
              value \in {month_to_integer(c1, c2, c3)},
              offset \in {month_offsets[(((68 * month_to_integer(c1, c2, c3)) % 929) % 16) + 1]} })

\* month_to_ordinal(const std::string_view& abbr)
month_to_ordinal_view(abbr) ==
    IF Len(abbr) # 3 THEN 0 ELSE month_to_ordinal(abbr[1], abbr[2], abbr[3])

-----------------------------------------------------------------------------
(* to_string of format.hpp, and the parse<T> that constructs its own object *)

RECURSIVE DecimalDigits(_)
\* the decimal digits of a natural number, without leading zeros
DecimalDigits(n) ==
    IF n < 10 THEN <<48 + n>> ELSE DecimalDigits(n \div 10) \o <<48 + (n % 10)>>

\* printf's %0wu and %.wd of a number that is not negative: at least w digits
ZeroPadded(w, n) == TheOnly({ Fill(w - Len(d), 48) \o d : d \in {DecimalDigits(n)} })

\* printf's %2hhx: the byte in lower-case hexadecimal, without leading zero,
\* padded with a space to two characters
printf_2hhx(c) ==
    LET digit(v) == IF v < 10 THEN 48 + v ELSE 87 + v
    IN  IF c < 16 THEN <<32, digit(c)>> ELSE <<digit(c \div 16), digit(c % 16)>>

RECURSIVE DivideByTen(_, _, _)
\* the bytes 1..i of the quotient of (rem * 256^i + the bytes 1..i of x) by 10,
\* and after them the remainder
DivideByTen(x, i, rem) ==
    IF i = 0 THEN <<rem>>
    ELSE DivideByTen(x, i - 1, (rem * 256 + x[i]) % 10) \o <<(rem * 256 + x[i]) \div 10>>

RECURSIVE std_to_string(_)
\* std::to_string of an unsigned 64-bit value
std_to_string(x) ==
    TheOnly({ IF SubSeq(qr, 2, 9) = ZeroU64 THEN <<48 + qr[1]>>
              ELSE std_to_string(SubSeq(qr, 2, 9)) \o <<48 + qr[1]>> :
              qr \in {DivideByTen(x, 8, 0)} })

\* to_string(const T&) for the T named
to_string(T, v) ==
    CASE T = "decimal" -> std_to_string(v)
      [] T = "hex" -> std_to_string(v)
      [] T = "date" ->
            ZeroPadded(4, v.year) \o <<45>> \o ZeroPadded(2, v.month) \o <<45>>
                \o ZeroPadded(2, v.day)
      [] T = "datetime" ->
            ZeroPadded(4, v.year) \o <<45>> \o ZeroPadded(2, v.month) \o <<45>>
                \o ZeroPadded(2, v.day) \o <<32>> \o ZeroPadded(2, v.hour) \o <<58>>
                \o ZeroPadded(2, v.minute) \o <<58>> \o ZeroPadded(2, v.second) \o <<46>>
                \o ZeroPadded(9, v.nanosecond) \o <<90>>
      [] T = "uuid" ->
            printf_2hhx(v[1]) \o printf_2hhx(v[2]) \o printf_2hhx(v[3]) \o printf_2hhx(v[4])
                \o <<45>> \o printf_2hhx(v[5]) \o printf_2hhx(v[6])
                \o <<45>> \o printf_2hhx(v[7]) \o printf_2hhx(v[8])
                \o <<45>> \o printf_2hhx(v[9]) \o printf_2hhx(v[10])
                \o <<45>> \o printf_2hhx(v[11]) \o printf_2hhx(v[12]) \o printf_2hhx(v[13])
                \o printf_2hhx(v[14]) \o printf_2hhx(v[15]) \o printf_2hhx(v[16])

\* parse<T>(str) in build b: whether obj.parse(str) of a default-constructed
\* obj returned true (otherwise parse_error is thrown), and the obj; after is
\* the byte behind the view
parse_T(T, b, str, after, junk, bare0x) ==
    CASE T = "decimal" ->
            TheOnly({ [ok |-> r.ok, obj |-> r.value] : r \in {decimal_parse(b, ZeroU64, str)} })
      [] T = "hex" ->
            TheOnly({ [ok |-> r.ok, obj |-> r.value] : r \in {hex_parse(b, ZeroU64, str)} })
      [] T = "date" -> date_parse(b, ZeroDate, str, junk)
      [] T = "datetime" -> datetime_parse(b, ZeroDatetime, str)
      [] T = "uuid" ->
            TheOnly({ [ok |-> r.ok, obj |-> r.id] :
                      r \in {uuid_parse(b, ZeroUuid, str, after, bare0x)} })

\* what snprintf's %.32s reads at the pointer str.data(): the bytes up to a NUL,
\* the NUL included, and 32 bytes at most; mem is the memory from the pointer on
printf_32s(mem) ==
    TheOnly({ [got |-> SubSeq(mem, 1, k), extent |-> IF k < 32 THEN k + 1 ELSE 32] :
              k \in {CHOOSE k \in 0..32 :
                        /\ \A i \in 1..k : mem[i] # 0
                        /\ k = 32 \/ mem[k + 1] = 0} })

\* the else branch of parse<T>: the text after "got: " in the message of the
\* parse_error, and how many bytes at str.data() were read for it; a NUL
\* follows the byte behind the view at the latest
parse_T_diagnostic(str, after) == printf_32s(str \o <<after, 0>>)

\* what a reader of microtime makes of the std::tm that gmtime returned a
\* pointer to: as_date() a date, as_datetime() a datetime, to_string(ts) a text
microtime_from_tm(call, ts, v) ==
    CASE call = "as_date" -> [year |-> ts.year, month |-> ts.month, day |-> ts.day]
      [] call = "as_datetime" ->
            [year |-> ts.year, month |-> ts.month, day |-> ts.day,
             hour |-> ts.hour, minute |-> ts.minute, second |-> ts.second,
             nanosecond |-> 1000 * microtime_microseconds(v), offset |-> 0]
      [] call = "to_string" ->
            ZeroPadded(4, ts.year) \o <<45>> \o ZeroPadded(2, ts.month) \o <<45>>
                \o ZeroPadded(2, ts.day) \o <<32>> \o ZeroPadded(2, ts.hour) \o <<58>>
                \o ZeroPadded(2, ts.minute) \o <<58>> \o ZeroPadded(2, ts.second) \o <<46>>
                \o ZeroPadded(6, microtime_microseconds(v)) \o <<90>>

-----------------------------------------------------------------------------
(* The state: one object of each type per build, the text handed to the    *)
(* last parse call, and what the call returned in each build.              *)

VARIABLES
    op,          \* the parse that ran on the objects since their construction ("none": none yet)
    inp,         \* the string_view passed to it
    ret,         \* build -> the bool it returned
    dateOf,      \* build -> the date object
    datetimeOf,  \* build -> the datetime object
    decimalOf,   \* build -> the value of the decimal_integer object
    hexOf,       \* build -> the value of the hexadecimal_integer object
    uuidOf,      \* build -> the _id of the uuid object
    encoded,     \* the output string of base64url::encode
    decodedOf,   \* build -> the output bytes of base64url::decode
    tzoffsetOf,  \* build -> the _value of the tzoffset object
    microOf,     \* build -> the _value of the microtime object
    readOf,      \* build -> what as_date, as_datetime and microseconds returned
    fields,      \* the arguments of the microtime constructor called last (NoFields: none)
    ordinal,     \* what month_to_ordinal returned last
    shown,       \* the text to_string made of the objects, and what parse<T> made of it
    tmbuf,       \* the std::tm that gmtime fills and returns a pointer to, one for all threads
    thr,         \* thread -> its call of a microtime reader, the microtime, its position, its result
    thrown       \* build -> whether parse<T> threw, and the input bytes its diagnostic text read

vars == <<op, inp, ret, dateOf, datetimeOf, decimalOf, hexOf, uuidOf, encoded, decodedOf,
          tzoffsetOf, microOf, readOf, fields, ordinal, shown, tmbuf, thr, thrown>>

\* the accessors of microtime have not been called
NoRead == [as_date |-> ZeroDate, as_datetime |-> ZeroDatetime, microseconds |-> 0]

\* no microtime has been constructed from parts
NoFields == [year |-> 0, month |-> 0, day |-> 0, hour |-> 0, minute |-> 0, second |-> 0,
             microsecond |-> 0]

\* to_string has not been called
NoShown == [T |-> "none", text |-> <<>>, result |-> <<>>]

\* the threads that call the readers of microtime, each on an object of its own
Threads == {1, 2}

\* a thread that is in no call
IdleThread == [pc |-> "idle", call |-> "none", value |-> UNSET, result |-> <<>>]

\* the static std::tm before the first call of gmtime: tm_year 0 and tm_mon 0
ZeroTm == [year |-> 1900, month |-> 1, day |-> 0, hour |-> 0, minute |-> 0, second |-> 0]

\* date, datetime, hexadecimal_integer and uuid have an AVX2 and a scalar
\* implementation
DtBuilds == {"avx2", "scalar"}

\* decimal_integer has an AVX2 kernel, a 64-bit-vector kernel for other x86
\* builds, and plain from_chars elsewhere
DecBuilds == {"avx2", "mmx", "generic"}

Init ==
    /\ op = "none"
    /\ inp = <<>>
    /\ ret = <<>>
    /\ dateOf = [b \in DtBuilds |-> ZeroDate]
    /\ datetimeOf = [b \in DtBuilds |-> ZeroDatetime]
    /\ decimalOf = [b \in DecBuilds |-> ZeroU64]
    /\ hexOf = [b \in DtBuilds |-> ZeroU64]
    /\ uuidOf = [b \in DtBuilds |-> ZeroUuid]
    /\ encoded = <<>>
    /\ decodedOf = [b \in DtBuilds |-> <<>>]
    /\ tzoffsetOf = [b \in DtBuilds |-> 0]
    /\ microOf = [b \in DtBuilds |-> UNSET]
    /\ readOf = [b \in DtBuilds |-> NoRead]
    /\ fields = NoFields
    /\ ordinal = 0
    /\ shown = NoShown
    /\ tmbuf = ZeroTm
    /\ thr = [t \in Threads |-> IdleThread]
    /\ thrown = <<>>

\* `T obj;` as in parse<T>(str) and check_fail<T>(str): fresh objects for the next call,
\* made in a new run of the program (the threads are in no call, the static
\* std::tm is as at the start)
Construct ==
    /\ op # "none"
    /\ op' = "none"
    /\ inp' = <<>>
    /\ ret' = <<>>
    /\ dateOf' = [b \in DtBuilds |-> ZeroDate]
    /\ datetimeOf' = [b \in DtBuilds |-> ZeroDatetime]
    /\ decimalOf' = [b \in DecBuilds |-> ZeroU64]
    /\ hexOf' = [b \in DtBuilds |-> ZeroU64]
    /\ uuidOf' = [b \in DtBuilds |-> ZeroUuid]
    /\ encoded' = <<>>
    /\ decodedOf' = [b \in DtBuilds |-> <<>>]
    /\ tzoffsetOf' = [b \in DtBuilds |-> 0]
    /\ microOf' = [b \in DtBuilds |-> UNSET]
    /\ readOf' = [b \in DtBuilds |-> NoRead]
    /\ fields' = NoFields
    /\ ordinal' = 0
    /\ shown' = NoShown
    /\ tmbuf' = ZeroTm
    /\ thr' = [t \in Threads |-> IdleThread]
    /\ thrown' = <<>>

-----------------------------------------------------------------------------
(* Inputs.  Each family is a few well-formed texts, the same texts with one *)
(* byte replaced, their prefixes, and the texts with one byte appended.     *)

\* the two and four decimal digits of n
D2(n) == <<48 + ((n \div 10) % 10), 48 + (n % 10)>>
D4(n) == D2(n \div 100) \o D2(n % 100)

\* how many of the bytes of MutBytes replace a byte of a text
MutByteCount == 20

\* '0'-'6' '9' ' ' 'T' '-' ':' '.' '+' 'Z' '_' '/' 0x80 'U' NUL, and 'x'
MutBytes == <<48, 49, 50, 51, 52, 53, 54, 57, 32, 84, 45, 58, 46, 43, 90, 95, 47, 128, 85, 0, 120>>

MutSet == {MutBytes[k] : k \in 1..(IF MutByteCount > Len(MutBytes) THEN Len(MutBytes) ELSE MutByteCount)}

\* s with each single byte replaced by a byte of the set, each prefix of s,
\* and s with a byte of the set appended
VariantsWith(s, bytes) ==
    {[s EXCEPT ![i] = c] : i \in 1..Len(s), c \in bytes}
        \cup {SubSeq(s, 1, n) : n \in 0..Len(s)}
        \cup {Append(s, c) : c \in bytes}

Variants(s) == VariantsWith(s, MutSet)

\* the elements 1..n of a tuple of texts, as a set
FirstOf(texts, n) == {texts[k] : k \in 1..(IF n > Len(texts) THEN Len(texts) ELSE n)}

\* "1984-12-31" and "1000-01-01"
DateBases == <<D4(1984) \o <<45>> \o D2(12) \o <<45>> \o D2(31),
               D4(1000) \o <<45>> \o D2(1) \o <<45>> \o D2(1)>>

DateInputs == UNION {Variants(s) : s \in FirstOf(DateBases, 2)}

\* what the uninitialized tail of date::parse_date's buffer may hold
JunkBytes == {0, 48, 255}

\* "1984-12-31 23:59:59"
DtStem == DateBases[1] \o <<32>> \o D2(23) \o <<58>> \o D2(59) \o <<58>> \o D2(59)

\* how many of the texts of DatetimeBases are used
DtBaseCount == 10

DatetimeBases ==
    <<DtStem,                                                         \* naive
      [DtStem EXCEPT ![11] = 84] \o <<90>>,                            \* 1984-12-31T23:59:59Z
      DtStem \o <<46, 49, 50, 51>>,                                   \* .123
      DtStem \o <<46, 49, 50, 51, 52, 53, 54, 55, 56, 57, 90>>,       \* .123456789Z
      DtStem \o <<43>> \o D2(1) \o <<58>> \o D2(30),                  \* +01:30
      DtStem \o <<46, 53, 45>> \o D2(11) \o <<58>> \o D2(30),         \* .5-11:30
      DtStem \o UTCSuffix,                                            \* " UTC"
      DtStem \o <<46, 48, 48, 48, 52, 53, 54>> \o UTCSuffix,          \* .000456 UTC
      D4(1) \o <<45>> \o D2(1) \o <<45>> \o D2(1) \o <<32>>
          \o D2(0) \o <<58>> \o D2(0) \o <<58>> \o D2(0),             \* 0001-01-01 00:00:00
      DtStem \o <<46, 49, 50, 51, 52, 53, 54, 55, 56, 57, 43>>
          \o D2(23) \o <<58>> \o D2(59),                              \* .123456789+23:59
      DtStem \o <<46, 48, 48, 48, 52, 53, 54, 55, 45>>
          \o D2(0) \o <<58>> \o D2(0)>>                               \* .0004567-00:00

DatetimeInputs == UNION {Variants(s) : s \in FirstOf(DatetimeBases, DtBaseCount)}

\* how many of the texts of TzoffsetBases are used
TzBaseCount == 5

\* "+01:30" "-11:30" "+23:59" "-99:59" "+24:00", and "-00:00"
TzoffsetBases ==
    <<<<43>> \o D2(1) \o <<58>> \o D2(30),
      <<45>> \o D2(11) \o <<58>> \o D2(30),
      <<43>> \o D2(23) \o <<58>> \o D2(59),
      <<45>> \o D2(99) \o <<58>> \o D2(59),
      <<43>> \o D2(24) \o <<58>> \o D2(0),
      <<45>> \o D2(0) \o <<58>> \o D2(0)>>

TzoffsetInputs == UNION {Variants(s) : s \in FirstOf(TzoffsetBases, TzBaseCount)}

\* how many of the texts of MicrotimeBases are used
MicroBaseCount == 5

MicrotimeBases ==
    <<D4(1984) \o <<45>> \o D2(1) \o <<45>> \o D2(1) \o <<32>> \o D2(13) \o <<58>> \o D2(2)
          \o <<58>> \o D2(4) \o <<46, 53, 54, 55, 45>> \o D2(11) \o <<58>> \o D2(30),
                                                       \* 1984-01-01 13:02:04.567-11:30
      D4(1969) \o <<45>> \o D2(12) \o <<45>> \o D2(31) \o <<32>> \o D2(23) \o <<58>> \o D2(59)
          \o <<58>> \o D2(59) \o <<90>>,                \* 1969-12-31 23:59:59Z
      D4(1970) \o <<45>> \o D2(1) \o <<45>> \o D2(1) \o <<84>> \o D2(0) \o <<58>> \o D2(59)
          \o <<58>> \o D2(58) \o <<46, 48, 48, 48, 52, 53, 54, 55, 56, 57, 43>>
          \o D2(1) \o <<58>> \o D2(0),                  \* 1970-01-01T00:59:58.000456789+01:00
      D4(9999) \o <<45>> \o D2(12) \o <<45>> \o D2(31) \o <<32>> \o D2(23) \o <<58>> \o D2(59)
          \o <<58>> \o D2(59),                          \* 9999-12-31 23:59:59
      D4(2000) \o <<45>> \o D2(2) \o <<45>> \o D2(29) \o <<32>> \o D2(0) \o <<58>> \o D2(0)
          \o <<58>> \o D2(0) \o UTCSuffix,              \* 2000-02-29 00:00:00 UTC
      D4(1000) \o <<45>> \o D2(1) \o <<45>> \o D2(1) \o <<32>> \o D2(23) \o <<58>> \o D2(59)
          \o <<58>> \o D2(59)>>                         \* 1000-01-01 23:59:59

MicrotimeInputs == UNION {Variants(s) : s \in FirstOf(MicrotimeBases, MicroBaseCount)}

\* how many of the texts of DecimalBases are used
DecBaseCount == 6

DecimalBases ==
    <<D4(1844) \o D4(6744) \o D4(737) \o D4(955) \o D4(1615),          \* 2^64-1
      D4(9999) \o D4(9999) \o D4(9999) \o D4(9999) \o D4(9999),        \* 20 nines
      <<49>> \o D4(0) \o D4(0) \o D4(0) \o D4(0) \o D4(0),             \* 10^20, 21 digits
      D4(1234) \o D4(5678) \o D4(9012) \o D4(3456) \o D4(7890),        \* 12345678901234567890
      D4(0) \o D4(0) \o D4(0) \o D4(0) \o D4(0) \o D2(0) \o <<52>>,    \* 23 digits, value 4
      D4(42) \o D4(9496) \o D4(7296),                                 \* 004294967296
      D4(9007) \o D4(1992) \o D4(5474) \o D4(993)>>                    \* 9007199254740993

\* how many of the bytes of HexMutBytes replace a byte of a text
HexMutByteCount == 16

\* 'a' 'F' 'g' 'G' '@' '`' '/' ':' '0' '9' 'x' 'X' 0x80 ' ' '-' 'f', and 'c'
HexMutBytes == <<97, 70, 103, 71, 64, 96, 47, 58, 48, 57, 120, 88, 128, 32, 45, 102, 99>>

HexMutSet == {HexMutBytes[k] : k \in 1..(IF HexMutByteCount > Len(HexMutBytes)
                                           THEN Len(HexMutBytes) ELSE HexMutByteCount)}

\* how many of the texts of HexBases are used
HexBaseCount == 7

HexBases ==
    <<D4(123) \o D4(4567) \o <<56, 57, 97, 98, 99, 100, 101, 102>>,        \* 0123456789abcdef
      <<70, 69, 68, 67, 66, 65>> \o D4(9876) \o D4(5432) \o D2(10),       \* FEDCBA9876543210
      <<68, 69, 65, 68, 98, 101, 101, 102>>,                              \* DEADbeef
      <<100, 101, 97, 100, 66, 69, 69, 70>>,                              \* deadBEEF
      <<48, 120, 49, 102>>,                                               \* 0x1f
      <<48, 120>> \o D4(123) \o D4(4567) \o <<56, 57, 65, 66, 67, 68, 69, 70>>,  \* 0x0123456789ABCDEF
      <<102, 102, 102, 102, 102, 102, 102, 102, 70, 70, 70, 70, 70, 70, 70, 70>>,  \* ffffffffFFFFFFFF
      <<48, 120, 65>>>>                                                   \* 0xA

HexInputs == UNION {VariantsWith(s, HexMutSet) : s \in FirstOf(HexBases, HexBaseCount)}

\* how many of the bytes of UuidMutBytes replace a byte of a text
UuidMutByteCount == 21

\* '/' ':' '@' '[' '`' '{' 'g' 'h' 0x80 0xff 'G' '-' '+' ' ' '_' 'x' NUL '}'
\* '0' 'F' 'a', and TAB
UuidMutBytes == <<47, 58, 64, 91, 96, 123, 103, 104, 128, 255, 71, 45, 43, 32, 95, 120, 0, 125,
                  48, 70, 97, 9>>

UuidMutSet == {UuidMutBytes[k] : k \in 1..(IF UuidMutByteCount > Len(UuidMutBytes)
                                             THEN Len(UuidMutBytes) ELSE UuidMutByteCount)}

\* the 8-4-4-4-12 spelling of 32 digits, and that spelling in braces
Dashed(h) ==
    SubSeq(h, 1, 8) \o <<45>> \o SubSeq(h, 9, 12) \o <<45>> \o SubSeq(h, 13, 16) \o <<45>>
        \o SubSeq(h, 17, 20) \o <<45>> \o SubSeq(h, 21, 32)
Braced(h) == <<123>> \o Dashed(h) \o <<125>>

\* f81d4fae7dec11d0a76500a0c91e6bf6 and 0123456789abcdefFEDCBA9876543210
UuidDigits ==
    <<<<102, 56, 49, 100, 52, 102, 97, 101, 55, 100, 101, 99, 49, 49, 100, 48,
        97, 55, 54, 53, 48, 48, 97, 48, 99, 57, 49, 101, 54, 98, 102, 54>>,
      D4(123) \o D4(4567) \o <<56, 57, 97, 98, 99, 100, 101, 102>>
          \o <<70, 69, 68, 67, 66, 65>> \o D4(9876) \o D4(5432) \o D2(10)>>

\* how many of the texts of UuidBases are used
UuidBaseCount == 6

UuidBases ==
    <<UuidDigits[1], Dashed(UuidDigits[1]), Braced(UuidDigits[1]),
      UuidDigits[2], Dashed(UuidDigits[2]), Braced(UuidDigits[2]),
      Dashed([i \in 1..32 |-> IF i % 2 = 1 THEN 70 ELSE 102])>>          \* FfFfFfFf-FfFf-...

UuidInputs == UNION {VariantsWith(s, UuidMutSet) : s \in FirstOf(UuidBases, UuidBaseCount)}

\* the byte behind the view: the NUL of a C string, or a byte of a longer text
AfterBytes == {0, 48}

DecimalInputs == UNION {Variants(s) : s \in FirstOf(DecimalBases, DecBaseCount)}

\* the byte string first, first + step, ... of length len
ByteRamp(len, first, step) == [i \in 1..len |-> (first + (i - 1) * step) % 256]

\* the length of the longest byte string encoded: it fills two 32-character
\* blocks, two more quadruplets and a tail
EncMaxLen == 54

\* the length of the byte string each byte of which takes every value
EncMutLen == 26

EncodeBase == ByteRamp(EncMaxLen, 0, 37)

EncodeInputs ==
    {SubSeq(EncodeBase, 1, n) : n \in 0..EncMaxLen}
        \cup {[SubSeq(EncodeBase, 1, EncMutLen) EXCEPT ![i] = v] : i \in 1..EncMutLen, v \in Byte}

\* how many of the texts of Base64Bases are used
Base64BaseCount == 3

\* one block, a quadruplet and a tail of three, and of two; a quadruplet and
\* a tail of three; two quadruplets
Base64Bases ==
    <<base64_encode(ByteRamp(29, 3, 41)).output,
      base64_encode(ByteRamp(28, 200, 5)).output,
      SubSeq(base64_encoding_table, 20, 26),
      base64_encode(ByteRamp(6, 250, 1)).output>>

\* every ASCII byte, and 0x80, 0xad and 0xff
Base64MutSet == (0..127) \cup {128, 173, 255}

Base64Inputs == UNION {VariantsWith(s, Base64MutSet) : s \in FirstOf(Base64Bases, Base64BaseCount)}

\* what a read before decoding_table may return: an invalid entry, a valid
\* one, and a byte with bits above the six of a valid entry
OobBytes == {64, 0, 191}

\* the choice matters only to a text with a byte 0x80..0xff
OobFor(str) == IF \E i \in 1..Len(str) : str[i] >= 128 THEN OobBytes ELSE {64}

\* the texts handed to a datetime object that has been used before: without a
\* fractional part, with one, and with a zone suffix
DatetimeReuseInputs ==
    {DatetimeBases[1], DatetimeBases[3], DatetimeBases[5], DatetimeBases[9]}

\* the civil UTC fields a microtime is constructed from: dates on both sides
\* of the epoch, and microseconds zero and not
FieldYears == {1969, 1970, 1984}
FieldSeconds == {0, 58, 59}
FieldMicroseconds == {0, 1, 123000, 999999}
MicrotimeFields ==
    [year : FieldYears, month : {1, 12}, day : {1, 31}, hour : {0, 23}, minute : {0, 59},
     second : FieldSeconds, microsecond : FieldMicroseconds]

\* the twelve abbreviated month names as the source spells them
MonthNames ==
    <<<<74, 97, 110>>, <<70, 101, 98>>, <<77, 97, 114>>, <<65, 112, 114>>,
      <<77, 97, 121>>, <<74, 117, 110>>, <<74, 117, 108>>, <<65, 117, 103>>,
      <<83, 101, 112>>, <<79, 99, 116>>, <<78, 111, 118>>, <<68, 101, 99>>>>

\* how many of the month names are used
MonthCount == 12

\* a month name in each of its eight mixes of upper and lower case
CaseMixes(s) ==
    {[i \in 1..3 |-> IF i \in up THEN 64 + (s[i] % 32) ELSE 96 + (s[i] % 32)] :
        up \in SUBSET (1..3)}

\* how many of the bytes of MonthMutBytes replace a character of a name
MonthMutByteCount == 18

\* '@' '`' '[' '{' DEL '_' NUL ' ' '*' 0x8a 0xca 0xea 'a' 'E' 'n' 'u' 'J' 'p', and 'c'
MonthMutBytes == <<64, 96, 91, 123, 127, 95, 0, 32, 42, 138, 202, 234, 97, 69, 110, 117, 74, 112, 99>>

MonthMutSet == {MonthMutBytes[k] : k \in 1..(IF MonthMutByteCount > Len(MonthMutBytes)
                                               THEN Len(MonthMutBytes) ELSE MonthMutByteCount)}

\* the bytes with the low five bits of a character of s and other high bits
SameLowBits(s) == {(s[i] % 32) + h : i \in 1..3, h \in {0, 32, 128, 160, 192, 224}}

MonthInputs ==
    UNION {VariantsWith(t, MonthMutSet \cup SameLowBits(t)) :
              t \in UNION {CaseMixes(s) : s \in FirstOf(MonthNames, MonthCount)}}

\* the microtime objects the threads read: a default-constructed one and two
\* instants
ThreadTimes ==
    {UNSET, microtime_assign(1984, 10, 24, 23, 59, 40, 123000, 0),
     microtime_assign(2000, 2, 29, 0, 0, 0, 0, 0)}

ReaderCalls == {"as_date", "as_datetime", "to_string"}

\* the builds of a type
BuildsOf(T) == IF T = "decimal" THEN DecBuilds ELSE DtBuilds

\* the texts handed to the throwing parse<T>: the variants of one text of
\* each type
ThrowInputs(T) ==
    CASE T = "decimal" -> Variants(DecimalBases[6])
      [] T = "hex" -> VariantsWith(HexBases[5], HexMutSet)
      [] T = "date" -> Variants(DateBases[1])
      [] T = "datetime" -> Variants(DatetimeBases[5])
      [] T = "uuid" -> VariantsWith(UuidBases[2], UuidMutSet)

-----------------------------------------------------------------------------
(* Actions *)

\* date::parse(str), in every build
DateParse(str, junk) ==
    /\ \E r \in {[b \in DtBuilds |-> date_parse(b, dateOf[b], str, junk)]} :
           /\ ret' = [b \in DtBuilds |-> r[b].ok]
           /\ dateOf' = [b \in DtBuilds |-> r[b].obj]
    /\ op' = "date"
    /\ inp' = str
    /\ UNCHANGED <<datetimeOf, decimalOf, hexOf, uuidOf, encoded, decodedOf, tzoffsetOf,
                   microOf, readOf, fields, ordinal, shown, tmbuf, thr, thrown>>

\* tzoffset::parse(str): the same code in every build
TzoffsetParse(str) ==
    /\ \E r \in {[b \in DtBuilds |-> tzoffset_parse(tzoffsetOf[b], str)]} :
           /\ ret' = [b \in DtBuilds |-> r[b].ok]
           /\ tzoffsetOf' = [b \in DtBuilds |-> r[b].value]
    /\ op' = "tzoffset"
    /\ inp' = str
    /\ UNCHANGED <<dateOf, datetimeOf, decimalOf, hexOf, uuidOf, encoded, decodedOf, microOf,
                   readOf, fields, ordinal, shown, tmbuf, thr, thrown>>

\* datetime::parse(str), in every build
DatetimeParse(str) ==
    /\ \E r \in {[b \in DtBuilds |-> datetime_parse(b, datetimeOf[b], str)]} :
           /\ ret' = [b \in DtBuilds |-> r[b].ok]
           /\ datetimeOf' = [b \in DtBuilds |-> r[b].obj]
    /\ op' = "datetime"
    /\ inp' = str
    /\ UNCHANGED <<dateOf, decimalOf, hexOf, uuidOf, encoded, decodedOf, tzoffsetOf, microOf,
                   readOf, fields, ordinal, shown, tmbuf, thr, thrown>>

\* datetime::parse(str) on objects that an earlier parse call has written
DatetimeReparse(str) ==
    /\ \E r \in {[b \in DtBuilds |-> datetime_parse(b, datetimeOf[b], str)]} :
           /\ ret' = [b \in DtBuilds |-> r[b].ok]
           /\ datetimeOf' = [b \in DtBuilds |-> r[b].obj]
    /\ op' = "reparse"
    /\ inp' = str
    /\ UNCHANGED <<dateOf, decimalOf, hexOf, uuidOf, encoded, decodedOf, tzoffsetOf, microOf,
                   readOf, fields, ordinal, shown, tmbuf, thr, thrown>>

\* microtime::parse(str), in every build
MicrotimeParse(str) ==
    /\ \E r \in {[b \in DtBuilds |-> microtime_parse(b, microOf[b], str)]} :
           /\ ret' = [b \in DtBuilds |-> r[b].ok]
           /\ microOf' = [b \in DtBuilds |-> r[b].value]
    /\ op' = "microtime"
    /\ inp' = str
    /\ UNCHANGED <<dateOf, datetimeOf, decimalOf, hexOf, uuidOf, encoded, decodedOf,
                   tzoffsetOf, readOf, fields, ordinal, shown, tmbuf, thr, thrown>>

\* microtime(year, month, day, hour, minute, second, microsecond), the offset
\* defaulted, in every build
MicrotimeConstruct(f) ==
    /\ microOf' = [b \in DtBuilds |->
                      microtime_assign(f.year, f.month, f.day, f.hour, f.minute, f.second,
                                       f.microsecond, 0)]
    /\ fields' = f
    /\ op' = "fields"
    /\ UNCHANGED <<inp, ret, dateOf, datetimeOf, decimalOf, hexOf, uuidOf, encoded, decodedOf,
                   tzoffsetOf, readOf, ordinal, shown, tmbuf, thr, thrown>>

\* as_date(), as_datetime() and microseconds() on the microtime object of
\* every build, default-constructed, parsed or constructed from parts
MicrotimeRead ==
    /\ op \in {"none", "microtime", "fields"}
    /\ readOf' = [b \in DtBuilds |->
                     [as_date      |-> microtime_as_date(microOf[b]),
                      as_datetime  |-> microtime_as_datetime(microOf[b]),
                      microseconds |-> microtime_microseconds(microOf[b])]]
    /\ op' = "read"
    /\ UNCHANGED <<inp, ret, dateOf, datetimeOf, decimalOf, hexOf, uuidOf, encoded, decodedOf,
                   tzoffsetOf, microOf, fields, ordinal, shown, tmbuf, thr, thrown>>

\* month_to_ordinal(abbr)
MonthToOrdinal(abbr) ==
    /\ ordinal' = month_to_ordinal_view(abbr)
    /\ op' = "month"
    /\ inp' = abbr
    /\ UNCHANGED <<ret, dateOf, datetimeOf, decimalOf, hexOf, uuidOf, encoded, decodedOf,
                   tzoffsetOf, microOf, readOf, fields, shown, tmbuf, thr, thrown>>

\* decimal_integer::parse(str), in every build
DecimalParse(str) ==
    /\ \E r \in {[b \in DecBuilds |-> decimal_parse(b, decimalOf[b], str)]} :
           /\ ret' = [b \in DecBuilds |-> r[b].ok]
           /\ decimalOf' = [b \in DecBuilds |-> r[b].value]
    /\ op' = "decimal"
    /\ inp' = str
    /\ UNCHANGED <<dateOf, datetimeOf, hexOf, uuidOf, encoded, decodedOf, tzoffsetOf, microOf,
                   readOf, fields, ordinal, shown, tmbuf, thr, thrown>>

\* hexadecimal_integer::parse(str), in every build
HexParse(str) ==
    /\ \E r \in {[b \in DtBuilds |-> hex_parse(b, hexOf[b], str)]} :
           /\ ret' = [b \in DtBuilds |-> r[b].ok]
           /\ hexOf' = [b \in DtBuilds |-> r[b].value]
    /\ op' = "hex"
    /\ inp' = str
    /\ UNCHANGED <<dateOf, datetimeOf, decimalOf, uuidOf, encoded, decodedOf, tzoffsetOf,
                   microOf, readOf, fields, ordinal, shown, tmbuf, thr, thrown>>

\* uuid::parse(str), in every build
UuidParse(str, after, bare0x) ==
    /\ \E r \in {[b \in DtBuilds |-> uuid_parse(b, uuidOf[b], str, after, bare0x)]} :
           /\ ret' = [b \in DtBuilds |-> r[b].ok]
           /\ uuidOf' = [b \in DtBuilds |-> r[b].id]
    /\ op' = "uuid"
    /\ inp' = str
    /\ UNCHANGED <<dateOf, datetimeOf, decimalOf, hexOf, encoded, decodedOf, tzoffsetOf,
                   microOf, readOf, fields, ordinal, shown, tmbuf, thr, thrown>>

\* base64url::encode(input, enc): the same code in every build
Base64Encode(input) ==
    /\ \E r \in {base64_encode(input)} :
           /\ ret' = [b \in DtBuilds |-> r.ok]
           /\ encoded' = r.output
    /\ op' = "encode"
    /\ inp' = input
    /\ UNCHANGED <<dateOf, datetimeOf, decimalOf, hexOf, uuidOf, decodedOf, tzoffsetOf, microOf,
                   readOf, fields, ordinal, shown, tmbuf, thr, thrown>>

\* base64url::decode(str, dec), in every build
Base64Decode(str, oob) ==
    /\ \E r \in {[b \in DtBuilds |-> base64_decode(b, decodedOf[b], str, oob)]} :
           /\ ret' = [b \in DtBuilds |-> r[b].ok]
           /\ decodedOf' = [b \in DtBuilds |-> r[b].output]
    /\ op' = "decode"
    /\ inp' = str
    /\ UNCHANGED <<dateOf, datetimeOf, decimalOf, hexOf, uuidOf, encoded, tzoffsetOf, microOf,
                   readOf, fields, ordinal, shown, tmbuf, thr, thrown>>

\* check_base64url: what encode produced is decoded; inp stays the bytes encoded
Base64DecodeEncoded(oob) ==
    /\ \E r \in {[b \in DtBuilds |-> base64_decode(b, decodedOf[b], encoded, oob)]} :
           /\ ret' = [b \in DtBuilds |-> r[b].ok]
           /\ decodedOf' = [b \in DtBuilds |-> r[b].output]
    /\ op' = "roundtrip"
    /\ UNCHANGED <<inp, dateOf, datetimeOf, decimalOf, hexOf, uuidOf, encoded, tzoffsetOf,
                   microOf, readOf, fields, ordinal, shown, tmbuf, thr, thrown>>

\* the object of type T of each build
ObjectOf(T) ==
    CASE T = "decimal" -> decimalOf
      [] T = "hex" -> hexOf
      [] T = "date" -> dateOf
      [] T = "datetime" -> datetimeOf
      [] T = "uuid" -> uuidOf

\* parse<T>(to_string(obj)) on the object every build parsed successfully; the
\* text is a std::string, so a NUL follows it
FormatAndParse(junk, bare0x) ==
    /\ op \in {"decimal", "hex", "date", "datetime", "uuid"}
    /\ \A b \in DOMAIN ret : ret[b]
    /\ \E text \in {[b \in DOMAIN ret |-> to_string(op, ObjectOf(op)[b])]} :
           shown' = [T |-> op, text |-> text,
                     result |-> [b \in DOMAIN ret |-> parse_T(op, b, text[b], 0, junk, bare0x)]]
    /\ op' = "format"
    /\ UNCHANGED <<inp, ret, dateOf, datetimeOf, decimalOf, hexOf, uuidOf, encoded, decodedOf,
                   tzoffsetOf, microOf, readOf, fields, ordinal, tmbuf, thr, thrown>>

\* thread t enters as_date(), as_datetime() or to_string(ts) on its microtime v
\* and runs it up to the return of gmtime, which has filled the std::tm all
\* threads share; as_datetime() of an undefined microtime returns before that
ThreadCallsGmtime(t, call, v) ==
    /\ thr[t].pc = "idle"
    /\ IF call = "as_datetime" /\ microtime_undefined(v)
       THEN /\ thr' = [thr EXCEPT ![t] = [pc |-> "done", call |-> call, value |-> v,
                                          result |-> ZeroDatetime]]
            /\ tmbuf' = tmbuf
       ELSE /\ thr' = [thr EXCEPT ![t] = [pc |-> "gmtime", call |-> call, value |-> v,
                                          result |-> <<>>]]
            /\ tmbuf' = gmtime(microtime_as_time(v))
    /\ op' = "threads"
    /\ UNCHANGED <<inp, ret, dateOf, datetimeOf, decimalOf, hexOf, uuidOf, encoded, decodedOf,
                   tzoffsetOf, microOf, readOf, fields, ordinal, shown, thrown>>

\* thread t reads the fields of the std::tm through the pointer gmtime
\* returned, and returns
ThreadReadsTm(t) ==
    /\ thr[t].pc = "gmtime"
    /\ thr' = [thr EXCEPT ![t].pc = "done",
                          ![t].result = microtime_from_tm(thr[t].call, tmbuf, thr[t].value)]
    /\ UNCHANGED <<op, inp, ret, dateOf, datetimeOf, decimalOf, hexOf, uuidOf, encoded,
                   decodedOf, tzoffsetOf, microOf, readOf, fields, ordinal, shown, tmbuf, thrown>>

\* parse<T>(str) on a view that the byte after follows: the object is local
\* to the call; on failure the diagnostic text is built from str.data()
ThrowingParse(T, str, after, junk, bare0x) ==
    /\ \E r \in {[b \in BuildsOf(T) |-> parse_T(T, b, str, after, junk, bare0x)]},
          d \in {parse_T_diagnostic(str, after)} :
           /\ ret' = [b \in BuildsOf(T) |-> r[b].ok]
           /\ thrown' = [b \in BuildsOf(T) |->
                            IF r[b].ok THEN [threw |-> FALSE, got |-> <<>>, extent |-> 0]
                            ELSE [threw |-> TRUE, got |-> d.got, extent |-> d.extent]]
    /\ op' = "throw"
    /\ inp' = str
    /\ UNCHANGED <<dateOf, datetimeOf, decimalOf, hexOf, uuidOf, encoded, decodedOf,
                   tzoffsetOf, microOf, readOf, fields, ordinal, shown, tmbuf, thr>>

\* a parse call is made on objects just constructed; its argument is any input
ParseDate == op = "none" /\ \E str \in DateInputs, junk \in JunkBytes : DateParse(str, junk)

ParseDatetime == op = "none" /\ \E str \in DatetimeInputs : DatetimeParse(str)

\* a second parse call on the datetime objects of an earlier one
ReparseDatetime == op = "datetime" /\ \E str \in DatetimeReuseInputs : DatetimeReparse(str)

ParseTzoffset == op = "none" /\ \E str \in TzoffsetInputs : TzoffsetParse(str)

ParseMicrotime == op = "none" /\ \E str \in MicrotimeInputs : MicrotimeParse(str)

ConstructMicrotime == op = "none" /\ \E f \in MicrotimeFields : MicrotimeConstruct(f)

OrdinalOfMonth == op = "none" /\ \E abbr \in MonthInputs : MonthToOrdinal(abbr)

ParseDecimal == op = "none" /\ \E str \in DecimalInputs : DecimalParse(str)

ParseHex == op = "none" /\ \E str \in HexInputs : HexParse(str)

ParseUuid ==
    op = "none" /\ \E str \in UuidInputs, after \in AfterBytes, bare0x \in BOOLEAN :
                      UuidParse(str, after, bare0x)

EncodeBytes == op = "none" /\ \E input \in EncodeInputs : Base64Encode(input)

DecodeText ==
    op = "none" /\ \E str \in Base64Inputs : \E oob \in OobFor(str) : Base64Decode(str, oob)

DecodeEncoded == op = "encode" /\ \E oob \in OobFor(encoded) : Base64DecodeEncoded(oob)

RoundTrip == \E junk \in JunkBytes, bare0x \in BOOLEAN : FormatAndParse(junk, bare0x)

\* the threads run concurrently: any thread that is in no call may enter one,
\* and any thread that has called gmtime may go on
EnterReader ==
    op \in {"none", "threads"}
        /\ \E t \in Threads, call \in ReaderCalls, v \in ThreadTimes : ThreadCallsGmtime(t, call, v)

LeaveReader == \E t \in Threads : ThreadReadsTm(t)

NextThreads == EnterReader \/ LeaveReader \/ Construct

SpecThreads == Init /\ [][NextThreads]_vars

ParseOrThrow ==
    op = "none"
        /\ \E T \in {"decimal", "hex", "date", "datetime", "uuid"} :
           \E str \in ThrowInputs(T), after \in AfterBytes, junk \in JunkBytes,
              bare0x \in BOOLEAN : ThrowingParse(T, str, after, junk, bare0x)

NextThrow == ParseOrThrow \/ Construct

SpecThrow == Init /\ [][NextThrow]_vars

NextDatetime ==
    ParseDate \/ ParseDatetime \/ ReparseDatetime \/ ParseTzoffset \/ ParseMicrotime
    \/ ConstructMicrotime \/ MicrotimeRead \/ RoundTrip \/ Construct

SpecDatetime == Init /\ [][NextDatetime]_vars

NextMonth == OrdinalOfMonth \/ Construct

SpecMonth == Init /\ [][NextMonth]_vars

NextDecimal == ParseDecimal \/ RoundTrip \/ Construct

SpecDecimal == Init /\ [][NextDecimal]_vars

NextHex == ParseHex \/ RoundTrip \/ Construct

SpecHex == Init /\ [][NextHex]_vars

NextUuid == ParseUuid \/ RoundTrip \/ Construct

SpecUuid == Init /\ [][NextUuid]_vars

NextBase64 == EncodeBytes \/ DecodeEncoded \/ DecodeText \/ Construct

SpecBase64 == Init /\ [][NextBase64]_vars

Next ==
    \/ ParseDate \/ ParseDatetime \/ ReparseDatetime \/ ParseTzoffset \/ ParseMicrotime
    \/ ConstructMicrotime \/ MicrotimeRead \/ OrdinalOfMonth
    \/ ParseDecimal \/ ParseHex \/ ParseUuid
    \/ EncodeBytes \/ DecodeEncoded \/ DecodeText
    \/ RoundTrip
    \/ EnterReader \/ LeaveReader
    \/ ParseOrThrow
    \/ Construct

Spec == Init /\ [][Next]_vars

-----------------------------------------------------------------------------
(* Claims about date and datetime *)

\* C1: for every input, valid or invalid, the AVX2 path and the scalar
\* fallback of date::parse and datetime::parse agree: both accept or both
\* reject, and on acceptance they produce identical year, month, day, hour,
\* minute, second, nanosecond and offset.
C1_VectorScalarAgree ==
    /\ op = "date" =>
        /\ ret["avx2"] = ret["scalar"]
        /\ ret["avx2"] => dateOf["avx2"] = dateOf["scalar"]
    /\ op = "datetime" =>
        /\ ret["avx2"] = ret["scalar"]
        /\ ret["avx2"] => datetimeOf["avx2"] = datetimeOf["scalar"]

\* the length of the zone suffix datetime::parse finds on str: "Z", "+hh:mm"
\* or "-hh:mm", " UTC", or none
ZoneSuffixLen(str) ==
    IF At(str, Len(str) - 1) = 90 THEN 1
    ELSE IF At(str, Len(str) - 6) = 43 \/ At(str, Len(str) - 6) = 45 THEN 6
    ELSE IF Substr(str, Len(str) - 4, 4) = UTCSuffix THEN 4
    ELSE 0

\* C2: datetime::parse accepts a string only if every separator position
\* holds its exact character: '-' at indexes 4 and 7, 'T' or space at index
\* 10, ':' at indexes 13 and 16, and '.' at index 19 when a fractional part
\* is present, both in the 19-character form and in the fractional form.
C2_SeparatorsExact ==
    op = "datetime" => \A b \in DtBuilds : ret[b] =>
        /\ At(inp, 4) = 45 /\ At(inp, 7) = 45
        /\ At(inp, 10) \in {84, 32}
        /\ At(inp, 13) = 58 /\ At(inp, 16) = 58
        /\ Len(inp) - ZoneSuffixLen(inp) > 19 => At(inp, 19) = 46

\* C3: date::parse and datetime::parse fail for every input whose month is
\* greater than 12, day greater than 31, hour greater than 23, minute or
\* second greater than 59: every successfully parsed value has month <= 12,
\* day <= 31, hour < 24, minute < 60, second < 60, nanosecond <= 999999999.
C3_FieldRanges ==
    /\ op = "date" => \A b \in DtBuilds : ret[b] =>
        dateOf[b].month <= 12 /\ dateOf[b].day <= 31
    /\ op = "datetime" => \A b \in DtBuilds : ret[b] =>
        /\ datetimeOf[b].month <= 12 /\ datetimeOf[b].day <= 31
        /\ datetimeOf[b].hour < 24 /\ datetimeOf[b].minute < 60
        /\ datetimeOf[b].second < 60 /\ datetimeOf[b].nanosecond <= 999999999

-----------------------------------------------------------------------------
(* Claims about decimal_integer *)

AllDigits(str) == \A i \in 1..Len(str) : IsDigit(str[i])

RECURSIVE DecimalNumber(_)
\* the number a digit string spells, on twelve bytes (up to 28 digits)
DecimalNumber(str) ==
    IF str = <<>> THEN ZeroU64 \o <<0, 0, 0, 0>>
    ELSE NatMulAdd(DecimalNumber(SubSeq(str, 1, Len(str) - 1)), 10, str[Len(str)] - 48)

\* the number is at most 2^64-1
FitsU64(n) == SubSeq(n, 9, 12) = <<0, 0, 0, 0>>

\* C4: a string of 21 or more digits, or of digits whose value exceeds
\* 2^64-1, is rejected in every build; and a parse of digits that succeeds
\* left the number the digits spell, not that number reduced modulo 2^64.
C4_OverflowRejected ==
    (op = "decimal" /\ AllDigits(inp)) =>
        \A b \in DecBuilds :
            /\ (Len(inp) >= 21 \/ ~FitsU64(DecimalNumber(inp))) => ~ret[b]
            /\ (ret[b] /\ Len(inp) >= 1) =>
                   /\ FitsU64(DecimalNumber(inp))
                   /\ decimalOf[b] = SubSeq(DecimalNumber(inp), 1, 8)

\* C5: a string of 1 to 20 digits whose value is at most 2^64-1 parses, in
\* every build, to exactly that value.
C5_ExactValue ==
    (op = "decimal" /\ Len(inp) \in 1..20 /\ AllDigits(inp) /\ FitsU64(DecimalNumber(inp))) =>
        \A b \in DecBuilds :
            ret[b] /\ decimalOf[b] = SubSeq(DecimalNumber(inp), 1, 8)

\* a 20-digit number above 2^56 parsed exactly where the kernel takes 16 (or
\* 8) digits and from_chars the rest
C5_Witness ==
    /\ op = "decimal" /\ Len(inp) = 20 /\ AllDigits(inp)
    /\ FitsU64(DecimalNumber(inp))
    /\ \A b \in DecBuilds : ret[b] /\ decimalOf[b] = SubSeq(DecimalNumber(inp), 1, 8)
    /\ decimalOf["avx2"][8] # 0

-----------------------------------------------------------------------------
(* Claims about hexadecimal_integer *)

AllHex(str) == \A i \in 1..Len(str) : HexDigitValue(str[i]) >= 0

RECURSIVE HexNumber(_)
\* the number a string of hexadecimal digits of either case spells, on eight bytes
HexNumber(str) ==
    IF str = <<>> THEN ZeroU64
    ELSE NatMulAdd(HexNumber(SubSeq(str, 1, Len(str) - 1)), 16, HexDigitValue(str[Len(str)]))

\* C6: a string of 1 to 16 hexadecimal digits parses to the value the digits
\* denote, whatever the case of its letters (so spellings that differ only in
\* case give the same value); a string of 17 or more hexadecimal digits fails.
C6_HexValue ==
    (op = "hex" /\ AllHex(inp)) =>
        \A b \in DtBuilds :
            /\ Len(inp) \in 1..16 => (ret[b] /\ hexOf[b] = HexNumber(inp))
            /\ Len(inp) >= 17 => ~ret[b]

\* sixteen digits with a lower-case and an upper-case letter among them, parsed
C6_Witness ==
    /\ op = "hex" /\ Len(inp) = 16 /\ AllHex(inp)
    /\ \E i, j \in 1..16 : inp[i] \in 97..102 /\ inp[j] \in 65..70
    /\ \A b \in DtBuilds : ret[b] /\ hexOf[b] = HexNumber(inp) /\ hexOf[b][8] # 0

\* C7: a leading "0x" or "0X" before 1 to 16 hexadecimal digits is skipped:
\* the parse succeeds with the value of the digits after it.
C7_PrefixStripped ==
    (/\ op = "hex" /\ Len(inp) \in 3..18
     /\ inp[1] = 48 /\ inp[2] \in {120, 88}
     /\ AllHex(SubSeq(inp, 3, Len(inp)))) =>
        \A b \in DtBuilds : ret[b] /\ hexOf[b] = HexNumber(SubSeq(inp, 3, Len(inp)))

-----------------------------------------------------------------------------
(* Claims about uuid *)

\* where the dashes of a text of 36 or 38 bytes are, and where its 32 digits
DashPositions(str) ==
    IF Len(str) = 36 THEN {9, 14, 19, 24}
    ELSE IF Len(str) = 38 THEN {10, 15, 20, 25}
    ELSE {}
DigitPositions(str) ==
    IF Len(str) = 38 THEN (2..37) \ DashPositions(str) ELSE (1..Len(str)) \ DashPositions(str)

\* the dashes, and the braces of the 38-byte spelling, are in place
Framed(str) ==
    /\ \A i \in DashPositions(str) : str[i] = 45
    /\ Len(str) = 38 => (str[1] = 123 /\ str[38] = 125)

NonHexPositions(str) == {i \in DigitPositions(str) : HexDigitValue(str[i]) < 0}

\* one of the three spellings of 32 hexadecimal digits
WellFormedUuid(str) ==
    Len(str) \in {32, 36, 38} /\ Framed(str) /\ NonHexPositions(str) = {}

\* the 32 digits of a spelling, in text order
UuidHexDigits(str) ==
    LET d == IF Len(str) = 38 THEN SubSeq(str, 2, 37) ELSE str
    IN  IF Len(d) = 32 THEN d
        ELSE SubSeq(d, 1, 8) \o SubSeq(d, 10, 13) \o SubSeq(d, 15, 18)
                 \o SubSeq(d, 20, 23) \o SubSeq(d, 25, 36)

\* C8: a 36-byte input is accepted only with '-' at indexes 8, 13, 18 and 23,
\* and a 38-byte input only if it is '{', a valid 36-byte form, and '}'.
C8_FramingChecked ==
    op = "uuid" =>
        \A b \in DtBuilds :
            /\ (ret[b] /\ Len(inp) = 36) => Framed(inp)
            /\ (ret[b] /\ Len(inp) = 38) => WellFormedUuid(inp)

\* C9: one of the three spellings with the byte at a single digit position
\* replaced by a byte that is not a hexadecimal digit is rejected.
C9_NonHexRejected ==
    (/\ op = "uuid" /\ Len(inp) \in {32, 36, 38} /\ Framed(inp)
     /\ Cardinality(NonHexPositions(inp)) = 1) =>
        \A b \in DtBuilds : ~ret[b]

\* C10: each spelling of 32 hexadecimal digits, in any case, parses to the 16
\* bytes with byte k = 16 * digit 2k + digit 2k+1 (so the three spellings of
\* the same digits give the same bytes).
C10_SameBytes ==
    (op = "uuid" /\ WellFormedUuid(inp)) =>
        \A b \in DtBuilds :
            /\ ret[b]
            /\ \A k \in 0..15 :
                   At(uuidOf[b], k) = 16 * HexDigitValue(At(UuidHexDigits(inp), 2 * k))
                                         + HexDigitValue(At(UuidHexDigits(inp), 2 * k + 1))

\* the braced spelling with letters of both cases, parsed to the bytes of its digits
C10_Witness ==
    /\ op = "uuid" /\ Len(inp) = 38 /\ WellFormedUuid(inp)
    /\ \E i, j \in 2..37 : inp[i] \in 97..102 /\ inp[j] \in 65..70
    /\ \A b \in DtBuilds :
           /\ ret[b]
           /\ uuidOf[b][1] = 16 * HexDigitValue(inp[2]) + HexDigitValue(inp[3])
           /\ uuidOf[b][16] = 16 * HexDigitValue(inp[36]) + HexDigitValue(inp[37])
           /\ uuidOf[b][16] # 0

-----------------------------------------------------------------------------
(* Claims about base64url *)

\* C11: for every byte string x (all 256 byte values, the empty string, the
\* 1- and 2-byte tails and at least one full 32-character block),
\* base64url::encode(x) succeeds, and base64url::decode of what it produced
\* succeeds and returns exactly x, in every build.
C11_RoundTrip ==
    /\ op = "encode" => \A b \in DtBuilds : ret[b]
    /\ op = "roundtrip" => \A b \in DtBuilds : ret[b] /\ decodedOf[b] = inp

\* a string with a byte above 0x7f that fills a vector block and leaves a
\* 2-byte tail came back from the round trip
C11_Witness ==
    /\ op = "roundtrip"
    /\ Len(inp) >= 24 /\ Len(inp) % 3 = 2
    /\ \E i \in 1..Len(inp) : inp[i] = 255
    /\ ret["avx2"] /\ decodedOf["avx2"] = inp

\* the characters of the alphabet: A-Z a-z 0-9 '-' '_'
IsBase64Char(c) ==
    \/ c >= 65 /\ c <= 90
    \/ c >= 97 /\ c <= 122
    \/ c >= 48 /\ c <= 57
    \/ c = 45
    \/ c = 95

\* C12: base64url::decode fails for every input whose length mod 4 is 1, and
\* for every input that holds an ASCII byte outside A-Z a-z 0-9 '-' '_'
\* ('+', '/' and '=' among them), wherever the byte sits: in a 32-character
\* block, in a scalar quadruplet, or in the 2- or 3-character tail.
C12_InvalidRejected ==
    (/\ op = "decode"
     /\ \/ Len(inp) % 4 = 1
        \/ \E i \in 1..Len(inp) : inp[i] < 128 /\ ~IsBase64Char(inp[i]))
        => \A b \in DtBuilds : ~ret[b]

\* a text with '=' in its first block and nothing else wrong was rejected
C12_Witness ==
    /\ op = "decode"
    /\ Len(inp) = 39 /\ inp[20] = 61
    /\ \A i \in 1..39 : i # 20 => IsBase64Char(inp[i])
    /\ ~ret["avx2"] /\ ~ret["scalar"]

\* C13: the vector kernel decode32 and the scalar 4-to-3 path agree on every
\* 32-character block, so base64url::decode returns the same result with and
\* without the vector path: both builds accept or both reject, and on
\* acceptance the outputs are the same bytes.
C13_VectorScalarAgree ==
    op = "decode" =>
        /\ ret["avx2"] = ret["scalar"]
        /\ ret["avx2"] => decodedOf["avx2"] = decodedOf["scalar"]

-----------------------------------------------------------------------------
(* Claims about the fractional part and the zone suffix of a date-time *)

\* the length of the date-time text before the zone suffix
NaiveLen(str) == Len(str) - ZoneSuffixLen(str)

\* the text has a '.' at index 19 and then k digits up to the zone suffix
HasFraction(str, k) ==
    /\ Len(str) >= 20
    /\ NaiveLen(str) = 20 + k
    /\ At(str, 19) = 46
    /\ AllDigits(Substr(str, 20, k))

\* C14: for a date-time with a fractional part of k digits, 1 <= k <= 9, a
\* successful datetime::parse sets nanosecond to the k-digit number times
\* 10^(9-k) (the digits right-padded with zeros to 9 places), whichever
\* zone suffix follows.
C14_FractionPadded ==
    op = "datetime" => \A b \in DtBuilds : \A k \in 1..9 :
        ret[b] /\ HasFraction(inp, k) =>
            datetimeOf[b].nanosecond = DigitsValue(inp, 20, 20 + k) * (10 ^ (9 - k))

\* "1984-12-31 23:59:59.5-11:30" gave 500000000 ns in both builds
C14_Witness ==
    /\ op = "datetime"
    /\ HasFraction(inp, 1) /\ At(inp, 20) = 53 /\ ZoneSuffixLen(inp) = 6
    /\ \A b \in DtBuilds : ret[b] /\ datetimeOf[b].nanosecond = 500000000

\* C15: datetime::parse fails when the seconds field is followed by '.' and
\* no fractional digit, as in "1984-10-24 23:59:59." and
\* "1984-10-24 23:59:59.Z": a fractional part has 1 to 9 digits.
C15_BareDotRejected ==
    op = "datetime" /\ HasFraction(inp, 0) => \A b \in DtBuilds : ~ret[b]

\* the offset a zone suffix denotes, in minutes: +(60*hh+mm) or -(60*hh+mm)
\* for "+hh:mm" and "-hh:mm", 0 for "Z", " UTC" and no suffix
SuffixMinutes(str) ==
    IF ZoneSuffixLen(str) # 6 THEN 0
    ELSE (IF At(str, Len(str) - 6) = 45 THEN 0 - 1 ELSE 1)
             * (60 * DigitsValue(str, Len(str) - 5, Len(str) - 3)
                    + DigitsValue(str, Len(str) - 2, Len(str)))

\* C16: after a successful datetime::parse, offset is +(60*hh+mm) minutes for
\* a "+hh:mm" suffix, -(60*hh+mm) for a "-hh:mm" suffix, and 0 for "Z", for
\* " UTC" and for no suffix; the date, time and nanosecond fields are those
\* the same date-time text gives without a suffix.
C16_OffsetFromSuffix ==
    op = "datetime" => \A b \in DtBuilds : ret[b] =>
        /\ datetimeOf[b].offset = SuffixMinutes(inp)
        /\ \E naive \in {datetime_parse(b, ZeroDatetime, Substr(inp, 0, NaiveLen(inp)))} :
               /\ naive.ok
               /\ naive.obj = [datetimeOf[b] EXCEPT !.offset = 0]

\* "1984-12-31 23:59:59.5-11:30" gave offset -690 in both builds
C16_Witness ==
    /\ op = "datetime"
    /\ Len(inp) = 27 /\ Substr(inp, 21, 6) = <<45, 49, 49, 58, 51, 48>>
    /\ \A b \in DtBuilds : ret[b] /\ datetimeOf[b].offset = 0 - 690

\* C17: every offset a successful tzoffset::parse produces, and so every
\* offset of a successful datetime::parse, is at most 1439 minutes either
\* way: an hour field above 23 ("+24:00", "-99:59"), a minute field of 60 or
\* more, and a sign byte other than '+' or '-' are rejected.
C17_OffsetWithinDay ==
    /\ op = "datetime" => \A b \in DtBuilds : ret[b] =>
           datetimeOf[b].offset >= 0 - 1439 /\ datetimeOf[b].offset <= 1439
    /\ op = "tzoffset" => \A b \in DtBuilds : ret[b] =>
           /\ tzoffsetOf[b] >= 0 - 1439 /\ tzoffsetOf[b] <= 1439
           /\ At(inp, 0) \in {43, 45}
           /\ DigitsValue(inp, 1, 3) <= 23
           /\ DigitsValue(inp, 4, 6) < 60

-----------------------------------------------------------------------------
(* Claims about microtime *)

\* the leap years among the years 1..n
LeapsUpTo(n) == (n \div 4) - (n \div 100) + (n \div 400)

IsLeapYear(y) == (y % 4 = 0 /\ y % 100 # 0) \/ y % 400 = 0

\* the days of month m of year y
DaysInMonth(y, m) ==
    IF m = 2 THEN (IF IsLeapYear(y) THEN 29 ELSE 28)
    ELSE IF m \in {4, 6, 9, 11} THEN 30 ELSE 31

RECURSIVE DaysBeforeMonth(_, _)
\* the days of the months of year y before month m
DaysBeforeMonth(y, m) == IF m <= 1 THEN 0 ELSE DaysBeforeMonth(y, m - 1) + DaysInMonth(y, m - 1)

\* the days from 1970-01-01 to the calendar date y-m-d
EpochDay(y, m, d) ==
    365 * (y - 1970) + LeapsUpTo(y - 1) - LeapsUpTo(1969) + DaysBeforeMonth(y, m) + d - 1

\* the fields name a date of the calendar and a time of day
IsCivil(dt) ==
    /\ dt.month >= 1 /\ dt.month <= 12
    /\ dt.day >= 1 /\ dt.day <= DaysInMonth(dt.year, dt.month)
    /\ dt.hour < 24 /\ dt.minute < 60 /\ dt.second < 60

\* 1000000 times the epoch second of the UTC instant of dt, plus the
\* microseconds of dt, as a _value
InstantOf(dt) ==
    TheOnly({ [days  |-> EpochDay(dt.year, dt.month, dt.day) + (secs \div 86400),
               sod   |-> secs % 86400,
               micro |-> dt.nanosecond \div 1000] :
              secs \in {3600 * dt.hour + 60 * dt.minute + dt.second - 60 * dt.offset} })

\* C18: for every date-time string datetime::parse accepts, with civil fields
\* F, nanosecond n and offset o minutes, microtime::parse yields 1000000
\* times the epoch second of the UTC instant (F minus o minutes) plus
\* floor(n / 1000).
C18_EpochMicroseconds ==
    op = "microtime" => \A b \in DtBuilds :
        \A dt \in {datetime_parse(b, ZeroDatetime, inp)} :
            /\ ret[b] = dt.ok
            /\ dt.ok /\ IsCivil(dt.obj) => microOf[b] = InstantOf(dt.obj)

\* C19: on a microtime that holds the undefined sentinel (default-constructed,
\* or left by a parse or assign that could not be normalized), as_date()
\* returns the zero date, as_datetime() the zero datetime, and
\* microseconds() returns 0.
C19_SentinelReadsZero ==
    op = "read" => \A b \in DtBuilds : microOf[b] = UNSET =>
        /\ readOf[b].as_date = ZeroDate
        /\ readOf[b].as_datetime = ZeroDatetime
        /\ readOf[b].microseconds = 0

-----------------------------------------------------------------------------
(* The claim about the output of a failed parse *)

\* C20: when a parse (decimal_integer, hexadecimal_integer, date, tzoffset,
\* datetime, microtime, uuid, base64url::decode) returns false, the output is
\* exactly what it was before the call or exactly the zero value of the type;
\* nothing computed before the failing check is left in it.  Every call is
\* made on a default-constructed output, so both are the same value here.
C20_FailureLeavesNothing ==
    /\ op = "date" => \A b \in DtBuilds : ~ret[b] => dateOf[b] = ZeroDate
    /\ op = "datetime" => \A b \in DtBuilds : ~ret[b] => datetimeOf[b] = ZeroDatetime
    /\ op = "tzoffset" => \A b \in DtBuilds : ~ret[b] => tzoffsetOf[b] = 0
    /\ op = "microtime" => \A b \in DtBuilds : ~ret[b] => microOf[b] = UNSET
    /\ op = "decimal" => \A b \in DecBuilds : ~ret[b] => decimalOf[b] = ZeroU64
    /\ op = "hex" => \A b \in DtBuilds : ~ret[b] => hexOf[b] = ZeroU64
    /\ op = "uuid" => \A b \in DtBuilds : ~ret[b] => uuidOf[b] = ZeroUuid
    /\ op = "decode" => \A b \in DtBuilds : ~ret[b] => decodedOf[b] = <<>>

(***************************************************************************)
(* C21: the value a successful parse leaves depends only on the text: a    *)
(* datetime object that an earlier parse has written holds, after a        *)
(* successful parse, what a freshly constructed object of the same build   *)
(* holds after parsing the same text (in particular after a time with a    *)
(* fractional part was parsed before a 19-character time without one).     *)
(***************************************************************************)
C21_ValueFromTextOnly ==
    \A b \in DtBuilds :
        (op = "reparse" /\ ret[b]) =>
            datetimeOf[b] = datetime_parse(b, ZeroDatetime, inp).obj

(***************************************************************************)
(* C23: decimal_integer::parse returns false for the empty text and for    *)
(* every text holding a byte outside '0'..'9', wherever that byte stands.  *)
(***************************************************************************)
C23_NonDigitRejected ==
    \A b \in DecBuilds :
        (op = "decimal" /\ (inp = <<>> \/ ~AllDigits(inp))) => ~ret[b]

(***************************************************************************)
(* C24: hexadecimal_integer::parse returns false for the empty text and    *)
(* for the text "0x", which hold no hexadecimal digit.                     *)
(***************************************************************************)
C24_NoDigitRejected ==
    \A b \in DtBuilds :
        (op = "hex" /\ inp \in {<<>>, <<48, 120>>}) => ~ret[b]

(***************************************************************************)
(* C29: every read of the 256-entry decoding table is within the table,    *)
(* also for a byte 0x80..0xff, so that such a byte decodes to the invalid  *)
(* entry 64 and base64url::decode returns false for every text holding     *)
(* one.                                                                    *)
(***************************************************************************)
C29_HighByteRejected ==
    (/\ op = "decode"
     /\ \E i \in 1..Len(inp) : inp[i] >= 128)
        => \A b \in DtBuilds : ~ret[b]

-----------------------------------------------------------------------------
(* Claims about the undefined sentinel and the readers of a microtime *)

\* C30: microtime::parse leaves the undefined sentinel only when the civil
\* time with its offset cannot be normalized to an instant: a text that
\* parses to a date of the calendar and a time of day (the second before the
\* epoch, 1969-12-31 23:59:59Z, among them) never leaves the sentinel.
C30_SentinelOnlyOnFailure ==
    op = "microtime" => \A b \in DtBuilds :
        \A dt \in {datetime_parse(b, ZeroDatetime, inp)} :
            (ret[b] /\ dt.ok /\ IsCivil(dt.obj)) => ~microtime_undefined(microOf[b])

\* C27: a microtime constructed from civil UTC fields that is not undefined
\* reads back as those fields: as_datetime() has the same year, month, day,
\* hour, minute and second and nanosecond = 1000 * microsecond, as_date() the
\* same date, and microseconds() the microsecond argument; also for an
\* instant before 1970 with a microsecond that is not zero.
C27_FieldsReadBack ==
    (op = "read" /\ fields # NoFields) => \A b \in DtBuilds :
        ~microtime_undefined(microOf[b]) =>
            /\ readOf[b].as_datetime =
                   [year |-> fields.year, month |-> fields.month, day |-> fields.day,
                    hour |-> fields.hour, minute |-> fields.minute, second |-> fields.second,
                    nanosecond |-> 1000 * fields.microsecond, offset |-> 0]
            /\ readOf[b].as_date =
                   [year |-> fields.year, month |-> fields.month, day |-> fields.day]
            /\ readOf[b].microseconds = fields.microsecond

-----------------------------------------------------------------------------
(* The claim about month names *)

\* the letter c in lower case, any other byte unchanged
LowerCase(c) == IF c >= 65 /\ c <= 90 THEN c + 32 ELSE c

\* jan feb mar apr may jun jul aug sep oct nov dec
EnglishMonths ==
    <<<<106, 97, 110>>, <<102, 101, 98>>, <<109, 97, 114>>, <<97, 112, 114>>,
      <<109, 97, 121>>, <<106, 117, 110>>, <<106, 117, 108>>, <<97, 117, 103>>,
      <<115, 101, 112>>, <<111, 99, 116>>, <<110, 111, 118>>, <<100, 101, 99>>>>

\* the k for which the text is the k-th month name in some mix of cases
MonthsNamed(str) ==
    {k \in 1..12 : Len(str) = 3 /\ \A i \in 1..3 : LowerCase(str[i]) = EnglishMonths[k][i]}

\* C28: month_to_ordinal returns k in 1..12 exactly when the three
\* characters are the k-th abbreviated English month name in any mix of
\* upper and lower case, and 0 for every other triple; the string_view
\* overload returns 0 for a text whose length is not 3.
C28_MonthOrdinal ==
    op = "month" =>
        /\ \A k \in MonthsNamed(inp) : ordinal = k
        /\ MonthsNamed(inp) = {} => ordinal = 0

\* "dEC" gave 12
C28_Witness == op = "month" /\ inp = <<100, 69, 67>> /\ ordinal = 12

-----------------------------------------------------------------------------
(* The claim about to_string *)

\* C26: for every value v of decimal_integer, hexadecimal_integer, date,
\* datetime (with a year from 1 to 9999, any offset and any nanosecond) and
\* uuid, parse<T>(to_string(v)) succeeds and the object it returns equals v.
C26_ParseOfToString ==
    op = "format" => \A b \in DOMAIN shown.result :
        (shown.T = "datetime" => ObjectOf("datetime")[b].year \in 1..9999) =>
            /\ shown.result[b].ok
            /\ shown.result[b].obj = ObjectOf(shown.T)[b]

-----------------------------------------------------------------------------
(* The claim about concurrent calls *)

\* C22: threads that call concurrently on distinct objects share no mutable
\* state, also in microtime::as_date(), microtime::as_datetime() and
\* to_string(microtime): what a call returns to a thread is what the call
\* returns on that thread's object when no other thread runs.
C22_NoSharedState ==
    \A t \in Threads :
        thr[t].pc = "done" =>
            thr[t].result =
                IF thr[t].call = "as_datetime" THEN microtime_as_datetime(thr[t].value)
                ELSE IF thr[t].call = "as_date" THEN microtime_as_date(thr[t].value)
                ELSE microtime_from_tm("to_string", gmtime(microtime_as_time(thr[t].value)),
                                       thr[t].value)

-----------------------------------------------------------------------------
(* The claim about reads behind the view *)

\* C25: for a view of n bytes no parse operation reads a byte at an index of
\* n or more, whether the text is accepted or rejected; the diagnostic text
\* that the throwing parse<T> builds from the input is among the reads.
C25_NoReadBehindView ==
    op = "throw" => \A b \in DOMAIN thrown : thrown[b].extent <= Len(inp)

====
